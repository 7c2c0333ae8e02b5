-------------------------- MODULE Reconfiguration --------------------------
(***************************************************************************)
(* Membership changes through the log (raft/leader.rs, raft/core.rs): a    *)
(* leader appends a configuration, which every server uses as soon as it   *)
(* is in its log; committing a joint configuration appends the one it      *)
(* leads to, committing one without the leader ends the leadership.        *)
(*                                                                         *)
(* As in ReplicatedLog, a won election and an exchange of append request   *)
(* and response are one step each and a response counts the entries of the *)
(* request; Raft and Catchup have these steps in detail.  Campaigns that   *)
(* fail appear as skipped terms.  Any server may campaign at any time, so  *)
(* the TimeoutNow messages that hasten a campaign are left out.            *)
(***************************************************************************)
EXTENDS Membership, RaftLog

CONSTANTS
    Node,
    Modes,          \* the values of Config.membership_mode to explore
    bootstrap_config,
    Changes,        \* the configuration changes clients ask for
    MaxLog,         \* bound: no command is proposed to a log of this length
    MaxTerm,        \* bound: the last term
    MaxChanges,     \* bound: the configuration changes proposed in all
    Campaigners,    \* bound: the servers that may win the election of a term
    Restarting,     \* bound: the servers that restart
    Links           \* bound: which leader exchanges messages with which server

VARIABLES
    mode, term, leading, log,
    commit_index,
    match_index,    \* match_index[l][n]: how far n has acknowledged l's log
    changes         \* how many changes were proposed

vars == <<mode, term, leading, log, commit_index, match_index, changes>>

(* The payload of an entry is a configuration or a command; which command  *)
(* does not matter.                                                        *)
NoConfig == simple_with_learners({}, {})
Entry(t, payload) == [term |-> t, payload |-> payload]
is_config(entry) == entry.payload # NoConfig
Nothing == [n \in Node |-> 0]

-----------------------------------------------------------------------------
(* The latest configuration of the log up to index i.                      *)
config_at(lg, i) ==
    LET at == {k \in 1 .. Min({i, last_index(lg)}) : is_config(lg[k])}
    IN  IF at = {} THEN bootstrap_config ELSE lg[Max(at)].payload

effective_config(n) == config_at(log[n], last_index(log[n]))

has_pending_config(n) == \E i \in DOMAIN log[n] : i > commit_index[n] /\ is_config(log[n][i])

-----------------------------------------------------------------------------
(* What a leader changes when it commits.                                  *)
Leader(n) == [log |-> log[n], commit |-> commit_index[n], match |-> match_index[n],
              leads |-> TRUE]

(* The highest entry of the leader's term that a quorum of its latest      *)
(* configuration holds.                                                    *)
advance_commit_index(n, s) ==
    LET cfg == config_at(s.log, last_index(s.log))
        committable == {i \in s.commit + 1 .. last_index(s.log) :
                           /\ s.log[i].term = term[n]
                           /\ has_quorum(cfg, {v \in Node : s.match[v] >= i})}
    IN  IF committable = {} THEN s ELSE [s EXCEPT !.commit = Max(committable)]

append_to_own(n, s, cfg) ==
    [s EXCEPT !.log = Append(@, Entry(term[n], cfg)), !.match[n] = last_index(s.log) + 1]

(* The first configuration among the newly committed entries that does     *)
(* not have the leader or is joint decides what happens.                   *)
Faulty_process_committed_configs(n, s, old_commit) ==
    LET joints == {i \in old_commit + 1 .. s.commit :
                      is_config(s.log[i]) /\ s.log[i].payload.is_joint}
    IN  IF joints = {} THEN s
        ELSE append_to_own(n, s, transition_target(s.log[Min(joints)].payload))

process_committed_configs(n, s, old_commit) ==
    LET decisive == {i \in old_commit + 1 .. s.commit :
                        /\ is_config(s.log[i])
                        /\ ~is_voter(s.log[i].payload, n) \/ s.log[i].payload.is_joint}
        cfg == s.log[Min(decisive)].payload
    IN  CASE decisive = {} -> s
          [] decisive # {} /\ ~is_voter(cfg, n) -> [s EXCEPT !.leads = FALSE]
          [] decisive # {} /\ is_voter(cfg, n) -> append_to_own(n, s, transition_target(cfg))

RECURSIVE maybe_commit(_, _)
maybe_commit(n, s) ==
    LET advanced == advance_commit_index(n, s)
        processed == process_committed_configs(n, advanced, s.commit)
    IN  IF processed.leads /\ processed.log # s.log
        THEN maybe_commit(n, processed)
        ELSE processed

(* n's state after its call of maybe_commit.                               *)
Becomes(n, s) ==
    /\ log' = [log EXCEPT ![n] = s.log]
    /\ commit_index' = [commit_index EXCEPT ![n] = s.commit]
    /\ leading' = [leading EXCEPT ![n] = s.leads]
    /\ match_index' = [match_index EXCEPT ![n] = IF s.leads THEN s.match ELSE Nothing]
-----------------------------------------------------------------------------
(* n wins the election of term t with the votes of Q, which are of voters  *)
(* of its configuration that have n for a voter in theirs.                 *)
Elect(n, t, Q) ==
    LET asked == Q \cup {n}
    IN  /\ t \in term[n] + 1 .. MaxTerm /\ n \in Campaigners[t]
        /\ Q \subseteq voters(effective_config(n)) /\ has_quorum(effective_config(n), Q)
        /\ is_voter(effective_config(n), n) => n \in Q
        /\ \A q \in Q \ {n} :
              /\ term[q] < t
              /\ is_voter(effective_config(q), n)
              /\ log_is_up_to_date(log[q], last_term(log[n]), last_index(log[n]))
        /\ term' = [q \in Node |-> IF q \in asked THEN t ELSE term[q]]
        /\ leading' = [q \in Node |-> IF q \in asked THEN q = n ELSE leading[q]]
        /\ match_index' = [q \in Node |->
               CASE q = n -> [Nothing EXCEPT ![n] = last_index(log[n])]
                 [] q \in Q \ {n} -> Nothing
                 [] OTHER -> match_index[q]]
        /\ UNCHANGED <<mode, log, commit_index, changes>>

(* Appending to the leader's own log, then maybe_commit.                   *)
AppendOwn(n, payload) ==
    /\ leading[n]
    /\ Becomes(n, maybe_commit(n, append_to_own(n, Leader(n), payload)))

propose(n) ==
    /\ last_index(log[n]) < MaxLog
    /\ AppendOwn(n, NoConfig)
    /\ UNCHANGED <<mode, term, changes>>

LearnerCaughtUp(n, change) ==
    change.kind = "AddVoter" => match_index[n][change.id] >= last_index(log[n])

propose_config_change(n, change) ==
    /\ changes < MaxChanges
    /\ validate(change, effective_config(n), mode)
    /\ LearnerCaughtUp(n, change)
    /\ ~has_pending_config(n)
    /\ AppendOwn(n, apply(change, effective_config(n), mode))
    /\ changes' = changes + 1
    /\ UNCHANGED <<mode, term>>

(* The member n of l's configuration takes l's log over.                   *)
Receives(l, n) ==
    /\ leading[l] /\ <<l, n>> \in Links /\ n \in all_nodes(effective_config(l))
    /\ term[n] <= term[l]
    /\ term' = [term EXCEPT ![n] = term[l]]
    /\ UNCHANGED <<mode, changes>>

Taken(l, n) == append_entries(log[n], 0, log[l])
CommitOf(l, n) == Max({commit_index[n], Min({commit_index[l], last_index(log[l])})})

(* The response reaches l, which counts it.                                *)
Exchange(l, n) ==
    LET counted == maybe_commit(l, [Leader(l) EXCEPT !.match[n] = last_index(log[l])])
    IN  /\ Receives(l, n)
        /\ log' = [log EXCEPT ![n] = Taken(l, n), ![l] = counted.log]
        /\ commit_index' = [commit_index EXCEPT ![n] = CommitOf(l, n), ![l] = counted.commit]
        /\ leading' = [leading EXCEPT ![n] = FALSE, ![l] = counted.leads]
        /\ match_index' = [match_index EXCEPT ![n] = Nothing,
               ![l] = IF counted.leads THEN counted.match ELSE Nothing]

(* The response is lost.                                                   *)
Unanswered(l, n) ==
    /\ Receives(l, n)
    /\ log' = [log EXCEPT ![n] = Taken(l, n)]
    /\ commit_index' = [commit_index EXCEPT ![n] = CommitOf(l, n)]
    /\ leading' = [leading EXCEPT ![n] = FALSE]
    /\ match_index' = [match_index EXCEPT ![n] = Nothing]

(* l hears of a higher term.                                               *)
StepDown(l, n) ==
    /\ leading[l] /\ <<l, n>> \in Links /\ term[n] > term[l]
    /\ term' = [term EXCEPT ![l] = term[n]]
    /\ leading' = [leading EXCEPT ![l] = FALSE]
    /\ match_index' = [match_index EXCEPT ![l] = Nothing]
    /\ UNCHANGED <<mode, log, commit_index, changes>>

(* Core::restore: only the term and the log are durable.                   *)
Restart(n) ==
    /\ n \in Restarting /\ (leading[n] \/ commit_index[n] > 0)
    /\ leading' = [leading EXCEPT ![n] = FALSE]
    /\ commit_index' = [commit_index EXCEPT ![n] = 0]
    /\ match_index' = [match_index EXCEPT ![n] = Nothing]
    /\ UNCHANGED <<mode, term, log, changes>>

Init ==
    /\ mode \in Modes
    /\ term = Nothing
    /\ leading = [n \in Node |-> FALSE]
    /\ log = [n \in Node |-> <<>>]
    /\ commit_index = Nothing
    /\ match_index = [n \in Node |-> Nothing]
    /\ changes = 0

Next ==
    \/ \E n \in Node, t \in 1 .. MaxTerm, Q \in SUBSET Node : Elect(n, t, Q)
    \/ \E n \in Node : propose(n)
    \/ \E n \in Node, change \in Changes : propose_config_change(n, change)
    \/ \E l, n \in Node : Exchange(l, n)
    \/ \E l, n \in Node : Unanswered(l, n)
    \/ \E l, n \in Node : StepDown(l, n)
    \/ \E n \in Node : Restart(n)

Spec == Init /\ [][Next]_vars

-----------------------------------------------------------------------------
(* Two servers never disagree on an entry both hold committed, whatever    *)
(* the configurations did meanwhile (Raft's promise to the state machine,  *)
(* which has_quorum of the latest configuration is to keep).               *)
CommittedAgree ==
    \A n, m \in Node : \A i \in 1 .. Min({commit_index[n], commit_index[m]}) :
        log[n][i] = log[m][i]

Successors(cfg) ==
    IF cfg.is_joint THEN {transition_target(cfg)}
    ELSE {apply(c, cfg, mode) : c \in {c \in Changes : validate(c, cfg, mode)}}

(* A quorum of a configuration and a quorum of what any accepted change    *)
(* turns it into share a server, and so do those of a joint configuration  *)
(* and of its target (membership.rs: "This guarantees overlapping          *)
(* majorities between any two consecutive configs").                       *)
QuorumsOverlap ==
    \A cfg \in {effective_config(n) : n \in Node} :
        \A after \in Successors(cfg), Q \in SUBSET Node :
            ~(has_quorum(cfg, Q) /\ has_quorum(after, Node \ Q))

(* A leader knows of no committed latest configuration without it          *)
(* (membership.rs: "Leader not in new config must step down after          *)
(* committing the change").                                                *)
RemovedLeaderStepsDown ==
    \A n \in Node : leading[n] =>
        is_voter(effective_config(n), n) \/ has_pending_config(n)
=============================================================================
