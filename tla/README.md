# Verification of cloud9

TLA+ specifications of cloud9, a replicated key-value store in Rust, with
TLC configurations that check them on small instances and TLAPS proofs for
every instance. Paths below are relative to `src/`; `raft/` abbreviates
`consensus/cloud9-raft/src/raft/`.

## The system

| Part | State | Operations | What makes it hard |
|---|---|---|---|
| Raft automaton (`raft/`: `mod`, `core`, `follower`, `precandidate`, `candidate`, `leader`) | term, vote and log (persistent); commit index; role with its votes, deadlines and per-peer progress | `tick`, `step` (11 kinds of message), `propose`, `disk_write_complete`, `transfer_leadership`, `propose_config_change`, `request_read_index`, `restore` | messages of several terms, late and repeated; crashes; optimistic pipelining; disk writes in parallel with sends |
| Log (`raft/log.rs`) | entries after a snapshot | append, truncate, slice, compaction, snapshot install | index arithmetic at both ends |
| Membership (`raft/membership.rs`) | configurations as log entries | joint and single-server changes | quorums of two configurations |
| Read-index coordinator, session tracker (`consensus/cloud9-raft-io`) | waiting reads, rounds; last result per client | request, round, acknowledge, complete; check, record, expire | acknowledgements of another round; retries |
| Node runtime (`cloud9-node/src/runtime.rs`) | the automaton behind a lock, waiters by log index, failed flag | step, tick, propose, apply | locks and awaits; failed saves; timeouts racing completion |
| Raft store (`cloud9-node/src/store.rs`) | last durable state | save a delta, recover | crash between append and sync |
| Key-value machine (`cloud9-node/src/command.rs`, `service.rs`) | objects with generations, sessions | create session, put, delete, barrier | exactly-once under retry |
| Write-ahead log (`cloud9-wal`) | segments, poisoned flag | open, append, sync, rotate, read | torn tails; failing rotation |
| Peer transport (`cloud9-node/src/transport.rs`) | none that lasts | send, receive | drops at its limit, retries, reorders |

The runtime drives one Raft automaton: it feeds it ticks, peer messages and
proposals, saves the persistent state through the store into the write-ahead log
when the step asks for it, only then sends the messages, and finally applies
newly committed commands to the key-value machine and answers their waiters.

The behaviours that are hard to test, each at its line and with the properties
about it, are the `hazards` of `PROJECT.json`.

## Modules

    RaftLog             logs; what is sent; what accepting a request does
      RaftCore          state, messages, saving, role transitions
        RaftElection    elections, pre-votes, leadership transfer, restart
          RaftReplication   proposals, append requests and answers, commitment
            Raft        Init, Next, Spec and all properties
              MCRaft, MCReplication
      ReplicatedLog     what Raft promises to the code above it
        NodeRuntime     runtime, service and clients          -> MCNode
        ReadIndex       read index of the library
          ReadCoordinator   coordinator of cloud9-raft-io
            LinearizableReads   both, with sessions and clients   -> MCReads
      PersistentDelta   the records of the Raft store
        RaftStore       store and runtime's step over Wal     -> MCStore
      Reconfiguration   membership changes through the log    -> MCMembership
    CompactLog          logs with a discarded prefix
      Catchup           one leader, one follower, lossy links -> MCCatchup
    Wal                 the write-ahead log
    DurableState        abstract: a save is atomic
    KvState             the key-value machine (used by NodeRuntime)
    SessionTracker      sessions of cloud9-raft-io (used by LinearizableReads)
    Membership          configurations and changes (used by Reconfiguration)

    RaftLogProofs, RaftTypeProofs, RaftElectionProofs, RaftReplicationProofs,
    LogLinksProofs, LogMatchingProofs, MembershipProofs, PersistentDeltaProofs

An indented module extends the one above it.

### Raft: RaftLog to Raft

`term`, `voted_for` and `log` are `Core.persistent` in memory, `stable` is what the
store has saved. `role` is `RoleState`; `leader`, `votes`, `next_index` and
`match_index` are the fields of the role structs. `msgs` is the set of all messages
sent: receiving does not remove, so a message can be received late, repeatedly, in
any order or never.

There is one action per handler. A handler that answers alike in several roles is
one action (`DenyVote`, `StepDown`, `AnswerPreVote`, `RejectStaleAppend`); its guard
lists the roles and their differences, such as the pre-candidate's missing test for
stale terms. `Receive` is `RaftNode::step`; `Local` is the rest of the node's
interface. A step that asks for persistence saves before it sends, in one atomic
action; that this is what the store provides is the subject of `RaftStore`. With
parallel disk writes `Propose` sends first and `DiskWriteComplete` saves later.

Deadlines are not counted. `heard` says whether a leader's message is more recent
than the minimal election timeout; an election timeout needs `~heard`, a tick
(`Quiet`) ends it. A heartbeat may happen at any time. The voters are fixed.
Commands are model values. Answers that their receiver would ignore for ever are not
put into `msgs` (`Ignored`): terms never decrease (`VoteOncePerTerm`), so nothing is
lost. Indices and terms are unbounded naturals; the code's are `u64`. Throttling by
size of proposals is left out, by their number is kept.

### Catchup over CompactLog

One leader and one follower of one term, with `next_index`, `match_index`, the
compact logs of both, and four links with the messages in flight, which may be
lost, duplicated and reordered. The actions are `handle_append_request`,
`handle_install_snapshot`, the leader's two answer handlers, its heartbeat and
`propose`. The library never compacts a log by itself, so compact logs are initial
states. `SnapshotAnswersLost` says whether answers to snapshots may be lost; see the
observations.

### RaftStore over Wal, and DurableState

`Wal` has the directory as a sequence of files and every file-system call of
`append`, `sync` and `open` as a step of its own, so that a failing call
(`CallFails`), the death of the process (`ProcessCrash`) and a loss of power
(`PowerLoss`) come between any two. A loss of power keeps what was synced and any
prefix of the rest, possibly ending in a torn record. `FsyncLinks` says whether
syncing a file also makes its directory entry durable, as common file systems do.

`RaftStore` adds `save`, which writes the difference of two states as one record
(`PersistentDelta`), `recover`, which replays all records, and the runtime's step:
test the failed flag, wait for the lock, change Raft's state (any change
`RaftMayBecome` allows), save, release the messages. `FailWhileWaiting` says whether
a save may fail while another step waits for the lock.

`DurableState` is the abstract specification: a set of states a restart may come back
with, to which a save adds the new state while it runs and of which it leaves
nothing else when it returns. The refinement mapping of `ImplementsDurableState`
takes this set to be what replaying the records from the synced ones up to all of
them can give.

### NodeRuntime over ReplicatedLog and KvState

`ReplicatedLog` states what Raft promises to the code above it: won elections,
replication and commitment as one step each, deposed leaders that do not know it,
tails that are replaced. It is not a refinement of `Raft`: `raft_commit` shows that
the code does not keep the promise; `ReplicatedLog` counts what the request carried.

`NodeRuntime` has on every node the key-value state, `last_applied`, the waiters by
log index and the failed flag, and clients that send, time out and send again. A
proposal's step may be dropped while it waits for the lock on the key-value state
(`Dropping`), which ends the apply loop early. `KvState` is `command.rs`: put and
delete with `if_match` and `if_none_match`, generations, sessions with the cached
result of the last request, rejections. Names and bodies are model values and an
etag is a function of the generation, as in `etag_for`.

### LinearizableReads: ReadIndex, ReadCoordinator, SessionTracker

`ReadIndex` is the library's read index: a leader's pending round with its
acknowledgements, `read_index_ready`, and messages that stay in `readMsgs` for ever.
`ReadCoordinator` is `read_index.rs`, driven as its documentation says. The code's
heartbeats carry no round number; the model's have one as history, with the commit
index of the cluster at each request (`floor`), and no guard reads either. The caller
of `request_read` has to check the leader first: the model asks for a commit in the
leader's term, the part of `can_serve_reads` that does not need the library's own
read index. `SessionTracker` is `session.rs` in the state machine its
documentation shows. `LinearizableReads` puts them on `ReplicatedLog`; a behaviour
uses one of the two read interfaces or none (`api`).

### Reconfiguration over Membership

`Membership` has the configurations and `ConfigChange::validate` and `apply` as
operators. `Reconfiguration` has logs with configuration entries, elections and
commitment with the quorums of the configuration in each server's own log,
`propose_config_change` with its guards, `process_committed_configs` with the
automatic second step of a joint change and the leader that steps down. Messages are
abstracted as in `ReplicatedLog`, with the same remark. `Campaigners` may win any
term, skipping others, so the `TimeoutNow` of `try_auto_transfer` is left out.

`Faulty_X` is `X` with a plausible mistake. No specification uses it; putting it in
the place of `X` shows that the property it belongs to can fail.

## Runs

| Run | Checks | Result |
|---|---|---|
| `raft_prevote` | 3 servers with pre-vote, two rivals, one running again; crashes and transfers: `TypeOK`, `ElectionSafety`, `VotesAreDurable`, `VoteOncePerTerm`, `PreVoteFirst` | holds |
| `raft_replication` | all logs a first leader can leave behind, a second leader with parallel disk writes and crashes, old requests still arriving: `LogMatching`, `LogTermsOrdered`, `AppendsAreContiguous`, `OwnMatchIsDurable`, `LeaderAppendOnly` | holds |
| `raft_commit` | a deposed leader that returns: `StateMachineSafety` | **violated** |
| `catchup_behind` | a follower that only misses entries, a leader with a compact log, lossy links: `TypeOK`, `MatchIsReplicated`, `KeepsCommitted`, `ConvergesByAppends` | holds |
| `catchup_conflict` | a follower with conflicting entries: `Converges` | **violated** |
| `store` | every failure, crash and loss of power between two file-system calls: `ImplementsDurableState` (refinement), `CanOpenAgain`, `LengthsAreReal` | holds |
| `store_queue` | a step queued behind a save that fails: `SyncedBeforeReleased` | **violated** |
| `node` | two clients with retries, two changes of leader, restart, failed save, dropped requests: `ReplicasAgree`, `AnswerIsFirstResult`, `ExactlyOnce`, `CreatedOnce`, `WaitersAreAwaited` | holds |
| `node_read` | a put and two reads around one change of leader: `ReadsAreFresh` | **violated** |
| `reads` | two leaders, the first of which may return, late responses, sessions with late copies of requests: `RoundsAreFresh`, `ConfirmedReadsAreFresh`, `FirstReadIsFresh`, `ExecutedInOrder` | holds |
| `membership` | 3 voters, a joining server, 6 kinds of change in both modes: `CommittedAgree`, `QuorumsOverlap`, `RemovedLeaderStepsDown` | holds |
| `membership_early` | 4 voters, three terms, two removals: `CommittedAgree` | **violated** |

### The five disagreements

* **A follower acknowledges more than was checked** (`raft_commit`). A follower
  answers a request it accepts with the last index of its own log
  (`raft/follower.rs:208-216`), and the leader takes it for `match_index`
  (`raft/leader.rs:424`). If the follower still has a suffix of a deposed leader,
  for instance because the request was an empty heartbeat that matched an earlier
  entry, the leader counts entries the follower does not have. It then commits
  an entry that is on no quorum, and the next leader replaces it. In the run
  `s1` kept an entry of term 1 for itself; `s2` proposes in term 2, gets its
  first heartbeat acknowledged by `s1` up to index 1 and commits its own
  entry 1, which `s1`, leading term 3, does not have.
* **No repair of conflicts** (`catchup_conflict`). A rejection sets `next_index` to
  the follower's last index + 1 (`raft/leader.rs:443-452`), never below, so a
  follower whose last entry conflicts rejects the same request for ever, where
  the checklist says that `nextIndex` is decremented and `Config.pipelining`
  that it goes back to `match_index + 1`.
* **A queued step works on a state that was not saved** (`store_queue`). `step`,
  `tick_once` and `propose` test the failed flag and then wait for the machine
  lock (`cloud9-node/src/runtime.rs:137-138`). If the holder's save fails
  meanwhile, the waiting step finds the automaton in the state that was not
  saved, and releases the messages this state produces.
* **Read barriers are taken for each other** (`node_read`). A waiter is completed if
  the entry at its index has the bytes it proposed (`runtime.rs:66`). Read
  barriers are all alike: `n2`, leading term 2, has committed a barrier at index 3
  and a put at index 4; `n1`, deposed without knowing, is asked to read and
  proposes its barrier at its own index 3; it then follows `n2` up to index 3,
  completes the waiter with the other barrier and reads a state without the put
  that was acknowledged before the read began.
* **Configuration changes by a leader that has not committed** (`membership_early`).
  `propose_config_change` looks for an uncommitted change in the leader's own log
  only (`raft/leader.rs:219`). With voters `s1`-`s4`, `s1` appends the removal of
  `s2` in term 1 and replicates it to nobody; `s2`, leading term 2 without having
  seen it, removes `s1`. Each then has a majority of its three voters, `s1` with
  `s3` in term 3 and `s2` with `s4` in term 2, and both commit index 1. A rule
  that a leader first commits an entry of its term would exclude this.

`catchup_behind`, `store` and `membership` stay clear of the corresponding
disagreement by their bounds, to show what holds beside it: start logs without
conflicts; no step queued behind a failing save; two terms instead of three.
`LogMatching` holds in spite of the first two, since the test on the previous entry
is sound.

### Observations without a property

* A candidate whose election times out starts the next one directly
  (`raft/candidate.rs:150`): a server partitioned after it won a pre-vote raises its
  term without end.
* `read_index_ready` asks by index: the answer for a later read may come from an
  earlier confirmed round with the same index. `FirstReadIsFresh` is therefore about
  a leader's first round; `RoundsAreFresh` is about all.
* Acknowledgements of the coordinator carry no round, so a read may be completed by
  answers to heartbeats sent before it was requested, in the same term: late ones, or
  those of the round in progress when it was requested. Another leader may have
  committed more in between, although `read_index.rs:11` says that the leader "is
  guaranteed to still be leader": `read_index >= floor` does not hold for all of
  `completed`. `ConfirmedReadsAreFresh` is about the reads whose round began after
  the request and counted no late answer, which an application gets if it matches
  answers with rounds.
* If the answer to an accepted snapshot is lost, the follower refuses the repeated
  offer as not newer, the leader ignores refusals, and `next_index` stays where it
  is (`raft/leader.rs:457-480`). `catchup_behind` assumes these answers arrive;
  `ConvergesByAppends` is about followers that need no snapshot.
* `RaftNode::committed` skips configuration entries, so `last_applied` does not pass
  one at the end of the log until a command follows it.
* A session that expires forgets its last request; a copy of it committed later is
  executed again (`session.rs`, by design of the module).
* Two session registrations proposed at the same index by an old and a new leader are
  equal commands, so both clients may be told the same client id (`runtime.rs:66`, as
  for read barriers).
* After a restart the commit index is 0, and the first configurations a leader re-reads
  may be old ones, which can end its leadership once more than necessary.
* A step queued behind a failed rotation may leave a torn record in a segment that is
  not the last; `open` then refuses the directory. The run `store` excludes queued
  steps behind failures, as said above.

### Bounds

* Raft: `MaxTerm` 2 allows a leader, a rival in its term and a successor; `raft_commit`
  has a third term, for the deposed leader to return. `Campaigners` says who may start
  each term. Three servers are the smallest cluster that tolerates a failure.
  `MaxLog` 2 with one entry per request (the code sends two, since its bound is
  inclusive, see the hazard at `raft/leader.rs:743`) gives missing, equal, conflicting
  and surplus suffixes. The replication runs start at the election of a second leader,
  with every pair of prefixes of the first leader's log on the other servers that lets
  it be elected; in `raft_replication` the third server receives nothing more (`Down`):
  logs interact only through the leader, and the pair of the two leaders has every case
  of a longer, shorter or conflicting log.
* Catchup: logs of 3, so that more than one message is needed; `MaxInFlight` 2, so that
  one can overtake another. A full link loses one of its messages.
* Store: at most three records of up to 3 units, segments of 3, a WAL of 6, so that
  saves rotate, fill a segment exactly, and exceed both limits; two terms and logs of
  two entries with every pair of states `RaftMayBecome` relates.
* Node: two committed session registrations, two more entries, three terms (the first
  leader returns), one client that sends up to three times; a restart of the first
  leader, a failed save and dropped requests at the second. `U64Max` 4 lets the
  generation counter come close to its end.
* Reads: one registration and one to three more entries (`LogBounds`, by interface), two
  or three terms (`TermBounds`), two reads and two rounds per leader. Three further
  entries hold both requests of the writer and a late copy of the first. Only the
  first leader's clients use the coordinator: within three terms it is the one that
  can be deposed while it believes that it leads, and the one that can return.
* Membership: two terms, two changes, logs of two commands plus configurations, and
  `Links` for the pairs that exchange messages, which leave each leader a majority.
* The views of the Raft runs drop messages that can have no further effect
  (`MCRaft!Live`) and keep those the checked properties speak of.
* Deadlock is checked in the Raft, Catchup and store runs: a node can always receive,
  tick or restart. It is not in the node, read and membership runs, whose clients
  have finitely many requests and whose logs are bounded.

### Fairness

Only `Catchup` has liveness. `WF(Heartbeat)`: the runtime ticks for ever. Strong
fairness of receiving a request for one position, one content of an answer, a snapshot
offer and its answer: a link that is used again and again delivers again and again,
which is the only progress an unreliable network gives; loss and duplication stay
possible any number of times. There is none on `Propose`; its bound ends proposals.

## Proofs

All checked by TLAPS. The Raft theorems rest on the named assumptions of `RaftCore`:
finitely many servers, at least one, `None` not among them; the numeric settings are
naturals; the options are Booleans; who may campaign, propose, crash or be down are
any sets of servers. `Campaigners`, `MaxTerm` and `MaxLog` are arbitrary, so the bounds
do not limit what is proved. The other theorems state their assumptions themselves.

* `RaftLogProofs`: what minimum and maximum return, that slicing, sending and
  accepting entries yields logs, and that `next_index` stays positive.
* `RaftTypeProofs!TypeCorrectness`: `Spec => []TypeOK`. `TypeOK` is inductive: its last
  conjunct (a leader's `next_index` is at least 1) is what makes the previous
  index of a request a natural number, where the code saturates at 0.
* `RaftElectionProofs`: `ElectionIsSafe` (`Spec => []ElectionSafety`), `VotesSurviveCrashes`
  (`Spec => []VotesAreDurable`), `VoteIsOncePerTerm` (`Spec => VoteOncePerTerm`).
* `RaftReplicationProofs`: `LeaderCountsDurableEntries` (`Spec => []OwnMatchIsDurable`),
  `LeadersOnlyAppend` (`Spec => LeaderAppendOnly`).
* `LogMatchingProofs`, on the lemmas of `LogLinksProofs`: `LogsMatch`
  (`Spec => []LogMatching`), `TermsAreOrdered` (`Spec => []LogTermsOrdered`),
  `AppendsLeaveNoGap` (`Spec => []AppendsAreContiguous`).
* `MembershipProofs`: `ConsecutiveQuorumsOverlap`, `TransitionQuorumsOverlap` and
  `ChangesKeepVoters`, for any finite set of servers. Together: starting from a
  configuration with voters, each configuration in a sequence of accepted changes and
  transitions shares a server with the next in every pair of quorums. What
  `membership_early` refutes is that all leaders extend one such sequence.
* `PersistentDeltaProofs!ReplayGivesTheSavedState`: for all states related by
  `RaftMayBecome`, replaying the record of a save on the old state gives the new one.
  Its need for Log Matching is explicit: the record only compares terms.

`ElectionSafety` is not inductive: that two leaders of a term cannot be comes from who
voted for them earlier, which the state shows only through `votes` and `msgs`. The
inductive invariant `ElectionInv` adds to `TypeOK`:

| Conjunct | Says |
|---|---|
| `Saved` | term and vote in memory are those on disk |
| `VoteBinds` | who granted a vote still holds it or is in a later term |
| `RunnerBinds` | who ran in a term voted for itself there or is in a later term |
| `RunnersDoNotVote`, `OneVote` | nobody runs and votes for another, or votes for two, in one term |
| `CountedVotes` | the votes a candidate counts were granted to it in its term |
| `LeadersElected` | whoever leads or led a term has a quorum of such votes |

Two leaders of a term have two quorums; they share a server, which by the three
conjuncts before voted for both: they are the same. Each action is shown to be one of
four: it concerns no election (`UninvolvedStep`), starts a candidacy
(`CandidacyStep`), grants a vote (`GrantStep`) or counts one (`CountStep`).
`VotesAreDurable` is `VoteBinds` with `Saved`; `VoteOncePerTerm` holds of each of the
four kinds of step.

`OwnMatchIsDurable` needs `Synced` (without parallel disk writes the log on disk is the
log in memory) and `NoLoops` (no append message is addressed to its sender, so no answer
changes a leader's entry for itself).

`LogMatching` compares whole prefixes of two logs, and a request may carry entries of
logs that exist nowhere any more. Its induction is over links instead: an entry, its index
and the term of the entry before it, wherever they are (logs in memory, logs on disk,
append requests ever sent). The inductive invariant `LinkInv`, on top of `ElectionInv`:

| Conjunct | Says |
|---|---|
| `LinksAgree` | index and term determine a link |
| `LinksOK` | a link has a term, only the first follows nothing, terms do not decrease |
| `LinksBounded` | nobody has, and no request carries, a link of a term after its own |
| `LinksFromLeaders` | the term of a link has a leader that won it |
| `LeaderHasAll` | all links of a leader's term lie within its log |
| `RunnersHaveTerms` | candidates and leaders have a term of at least 1 |

The test on `prev_log_term` lets a follower join a request to its log only where the two
ends fit, so accepting, saving, restarting and sending carry links about and make none
(`AppendedLinks`, `CarriedStep`). Only `propose` makes one (`ProposalLinks`), at an index
that no link of its term has yet: by `LeaderHasAll`, which a new leader satisfies because
`LinksFromLeaders` and `OneWinner` leave its term without links. Two logs with one term at
one index share the link there, hence the term one index earlier, down to the start.

Only model-checked: the commitment properties, `PreVoteFirst`, all of
`Catchup`, the refinement of `DurableState`, and the node, read and membership state
machines. Liveness is out of TLAPS's reach, and so is any proof in `Reconfiguration`,
whose commit loop is recursive.

## Not modelled

* **Bytes on disk**: record encoding, checksums and zero-filled tails. A record is whole
  or torn; a disk that returns wrong bytes is outside the model.
* **Time**: deadlines, the randomised election timeout, backoff of the transport. Every
  timeout may happen at any moment the code's guards allow.
* **Snapshot contents**: the library delegates them to an I/O layer that does not exist
  in the repository, and cloud9-node stops when it would have to send one.
* **`try_auto_transfer`, `status`, `mode`**: a hint to campaign early, and reports.
* **Command line, configuration files, request signing, generated protocol code, the
  empty storage crate**: no state that changes.
* **MVCC, transactions, time and sharding**: documents in `spec/` only.
