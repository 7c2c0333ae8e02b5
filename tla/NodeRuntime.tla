---------------------------- MODULE NodeRuntime ----------------------------
(***************************************************************************)
(* The node program (cloud9-node): RaftRuntime (runtime.rs) and the        *)
(* key-value service (service.rs) on every node of a group, with clients   *)
(* that retry what was not answered.                                       *)
(*                                                                         *)
(* Everything a node does to its Raft machine happens under one lock:      *)
(* change the Raft state, save it, apply what is committed, complete the   *)
(* waiters.  The one place where such a step can end early is the wait for *)
(* the lock on the key-value state in apply_committed, when the request    *)
(* the step serves is dropped.                                             *)
(*                                                                         *)
(* A client has one request at a time, so the client stands for the id of  *)
(* its proposal: waiters[n][i] is the client whose proposal waits for the  *)
(* entry at index i.                                                       *)
(***************************************************************************)
EXTENDS ReplicatedLog, KvState, SequencesExt

CONSTANTS
    Client,
    NoClient,
    FirstLeader,
    Programs,       \* the requests of the clients: a set of functions, a sequence for each
    MaxSends,       \* bound: how often a client sends a request, by client
    Dropping,       \* bound: the nodes whose steps may be dropped half way
    Restarting,     \* bound: the nodes that may restart
    Failing         \* bound: the nodes whose save may fail

VARIABLES
    kv, last_applied,   \* the state machine of each node
    waiters, failed,
    client,             \* the clients
    answers             \* the answers to mutations that reached a client

nodeVars == <<kv, last_applied, waiters, failed>>
vars == <<raftVars, nodeVars, client, answers>>

(* The state after the commands of a log, and the result of the last one.  *)
replay(state, entries) == FoldLeft(LAMBDA s, e : apply(s, e.cmd).state, state, entries)

(* A client: phase "ready" has a request to send, "waiting" waits for the  *)
(* entry at index of node, "dropped" has lost its waiter to a later        *)
(* proposal and has not noticed yet, "reading" has passed the read barrier *)
(* at node, "done" has no request left.                                    *)
NotSent == [node |-> NoClient, index |-> 0]

Begin(requests) ==
    [phase |-> IF requests = <<>> THEN "done" ELSE "ready", requests |-> requests,
     at |-> NotSent, sends |-> 0, floor |-> 0, seen |-> 0]

Init ==
    /\ RaftInit(FirstLeader)
    /\ kv = [n \in Node |-> replay(new, BaseLog)]
    /\ last_applied = [n \in Node |-> Len(BaseLog)]
    /\ waiters = [n \in Node |-> [i \in 1 .. MaxLog |-> NoClient]]
    /\ failed = [n \in Node |-> FALSE]
    /\ \E p \in Programs : client = [c \in Client |-> Begin(p[c])]
    /\ answers = {}

(* The request, and the command the service proposes for it: head and get  *)
(* propose a read barrier.                                                 *)
request_of(c) == Head(client[c].requests)

command(c) == IF request_of(c).op = "get" THEN [op |-> "barrier"] ELSE request_of(c)

(* The client is told of a failure and sends the request again.            *)
Retry(cl, c) == [cl EXCEPT ![c].phase = "ready", ![c].at = NotSent, ![c].floor = 0]

-----------------------------------------------------------------------------
(* PendingProposal.complete: the waiter gets the result if the entry at    *)
(* its index holds the command it proposed.                                *)
Faulty_completes(c, cmd) == TRUE

completes(c, cmd) == command(c) = cmd

Answered(cl, c, cmd, result) ==
    IF ~completes(c, cmd) THEN Retry(cl, c)[c]
    ELSE IF result.kind = "barrier" THEN [cl[c] EXCEPT !.phase = "reading"]
    ELSE Begin(Tail(cl[c].requests))

(* apply_committed up to index k: every entry is applied, then             *)
(* last_applied moves, then the waiter at the index is completed.  cl and  *)
(* w are the clients and the waiters after what the step did before.       *)
apply_committed(n, k, cl, w) ==
    LET lg == log'[n]
        new_indices == last_applied[n] + 1 .. k
        before(i) == replay(kv[n], SubSeq(lg, last_applied[n] + 1, i - 1))
        result(i) == apply(before(i), lg[i].cmd).result
        completed == {i \in new_indices : w[n][i] # NoClient}
        index(c) == CHOOSE i \in completed : w[n][i] = c
        told == {w[n][i] : i \in completed}
    IN  /\ kv' = [kv EXCEPT ![n] = before(k + 1)]
        /\ last_applied' = [last_applied EXCEPT ![n] = k]
        /\ waiters' = [w EXCEPT ![n] = [i \in 1 .. MaxLog |->
                                            IF i \in new_indices THEN NoClient ELSE @[i]]]
        /\ client' = [c \in Client |->
                         IF c \in told
                         THEN Answered(cl, c, lg[index(c)].cmd, result(index(c)))
                         ELSE cl[c]]
        /\ answers' = answers \cup
               {[cmd |-> command(c), index |-> index(c), result |-> result(index(c))] :
                   c \in {d \in told : completes(d, lg[index(d)].cmd)
                                         /\ command(d).op \in {"put", "delete"}}}

(* A step that applies all it can, or is dropped after part of it.         *)
Applies(n) ==
    \E k \in IF n \in Dropping THEN last_applied[n] .. commit'[n] ELSE {commit'[n]} :
        apply_committed(n, k, client, waiters)

-----------------------------------------------------------------------------
(* The highest generation a client has been told of, for a name.           *)
Acknowledged(name) ==
    Max({0} \cup {a.result.generation :
                     a \in {b \in answers : b.result.kind = "put" /\ b.cmd.name = name}})

(* RaftRuntime.propose, up to the wait for the result.  A waiter an older  *)
(* proposal left at the index is replaced.                                 *)
Propose(c, n) ==
    LET i == last_index(log[n]) + 1
        old == waiters[n][i]
        told == IF old = NoClient THEN client
                ELSE [client EXCEPT ![old].phase = "dropped"]
        sent == [told EXCEPT ![c].phase = "waiting", ![c].at = [node |-> n, index |-> i],
                             ![c].sends = @ + 1,
                             ![c].floor = IF request_of(c).op = "get"
                                          THEN Acknowledged(request_of(c).name) ELSE 0]
    IN  /\ AppendCommand(n, command(c))
        /\ \/ apply_committed(n, commit[n], sent, [waiters EXCEPT ![n][i] = c])
           \/ \E k \in last_applied[n] .. commit[n] - 1 :     \* dropped while it applies
                  n \in Dropping /\ apply_committed(n, k, told, [waiters EXCEPT ![n][i] = NoClient])
        /\ UNCHANGED failed

(* store.save fails: the runtime does nothing any more.                    *)
SaveFails(n) ==
    /\ n \in Failing /\ ~failed[n]
    /\ failed' = [failed EXCEPT ![n] = TRUE]
    /\ UNCHANGED <<raftVars, kv, last_applied, waiters, client, answers>>

(* The service checks a request before it proposes it.                     *)
Send(c, n) ==
    /\ client[c].phase = "ready" /\ client[c].sends < MaxSends[c]
    /\ command(c).op \in {"put", "delete"} => validate(command(c))
    /\ ~failed[n]
    /\ Propose(c, n)

RejectInvalid(c) ==
    /\ client[c].phase = "ready"
    /\ command(c).op \in {"put", "delete"} /\ ~validate(command(c))
    /\ client' = [client EXCEPT ![c] = Begin(Tail(@.requests))]
    /\ UNCHANGED <<raftVars, nodeVars, answers>>

(* The request times out, is cancelled or finds its waiter replaced:       *)
(* remove_pending, if the waiter at the index is still this proposal's.    *)
Faulty_remove_pending(n, i, c) == [waiters EXCEPT ![n][i] = NoClient]

remove_pending(n, i, c) ==
    IF waiters[n][i] = c THEN [waiters EXCEPT ![n][i] = NoClient] ELSE waiters

Timeout(c) ==
    /\ client[c].phase \in {"waiting", "dropped"}
    /\ waiters' = remove_pending(client[c].at.node, client[c].at.index, c)
    /\ client' = Retry(client, c)
    /\ UNCHANGED <<raftVars, kv, last_applied, failed, answers>>

(* head and get, after the barrier: the read of the node's state.          *)
ReadState(c) ==
    LET n == client[c].at.node
        name == request_of(c).name
    IN  /\ client[c].phase = "reading"
        /\ client' = [client EXCEPT ![c] =
               [Begin(Tail(@.requests)) EXCEPT
                   !.floor = client[c].floor,
                   !.seen = IF name \in DOMAIN kv[n].entries
                            THEN kv[n].entries[name].generation ELSE 0]]
        /\ UNCHANGED <<raftVars, nodeVars, answers>>

-----------------------------------------------------------------------------
(* Steps on messages and ticks.                                            *)
Wins(n) ==
    /\ ~failed[n]
    /\ \E Q \in SUBSET {m \in Node : ~failed[m]} : Elect(n, Q)
    /\ Applies(n)
    /\ UNCHANGED failed

Follows(l, n) ==
    /\ ~failed[l] /\ ~failed[n]
    /\ \E k \in Len(BaseLog) .. MaxLog : Replicate(l, n, k)
    /\ Applies(n)
    /\ UNCHANGED failed

Commits(l) ==
    /\ ~failed[l]
    /\ \E i \in 1 .. MaxLog : Commit(l, i)
    /\ Applies(l)
    /\ UNCHANGED failed

Tick(n) ==
    /\ ~failed[n] /\ last_applied[n] < commit[n]
    /\ UNCHANGED raftVars
    /\ apply_committed(n, commit[n], client, waiters)
    /\ UNCHANGED failed

(* The process ends and starts again: RaftRuntime.open with a new KvState. *)
Faulty_fresh_state(n) == kv[n]

fresh_state(n) == new

Restart(n) ==
    /\ n \in Restarting
    /\ Reset(n)
    /\ kv' = [kv EXCEPT ![n] = fresh_state(n)]
    /\ last_applied' = [last_applied EXCEPT ![n] = 0]
    /\ waiters' = [waiters EXCEPT ![n] = [i \in 1 .. MaxLog |-> NoClient]]
    /\ failed' = [failed EXCEPT ![n] = FALSE]
    /\ client' = [c \in Client |-> IF client[c].at.node = n THEN Retry(client, c)[c]
                                                            ELSE client[c]]
    /\ UNCHANGED answers

Next ==
    \/ \E c \in Client : \/ \E n \in Node : Send(c, n)
                         \/ RejectInvalid(c)
                         \/ Timeout(c)
                         \/ ReadState(c)
    \/ \E n \in Node : \/ Wins(n)
                       \/ \E l \in Node : Follows(l, n)
                       \/ Commits(n)
                       \/ Tick(n)
                       \/ SaveFails(n)
                       \/ Restart(n)

Spec == Init /\ [][Next]_vars

-----------------------------------------------------------------------------
(* Nodes that have applied the same entries have the same state, whatever  *)
(* requests were dropped half way and whatever was replayed after a        *)
(* restart (command.rs: "deterministic state-machine application").        *)
ReplicasAgree ==
    \A m, n \in Node : last_applied[m] = last_applied[n] => kv[m] = kv[n]

(* The result of the entry at index i of a node's log.                     *)
ResultAt(n, i) == apply(replay(new, SubSeq(log[n], 1, i - 1)), log[n][i].cmd).result

(* An answer a client gets for a put or delete is the result of the first  *)
(* committed entry with that request, however often it was proposed again  *)
(* after timeouts, failures and elections (cached_mutation, complete).     *)
AnswerIsFirstResult ==
    \A a \in answers, n \in Node :
        commit[n] >= a.index =>
            LET same == {i \in 1 .. commit[n] : log[n][i].cmd = a.cmd}
            IN  same # {} /\ a.result = ResultAt(n, Min(same))

(* A client asks for one sequence number once: the request takes effect at *)
(* most once in every replica's history (session cache, command.rs:397).   *)
TakesEffect(n, i) ==
    LET before == replay(new, SubSeq(log[n], 1, i - 1))
    IN  apply(before, log[n][i].cmd).state.entries # before.entries

ExactlyOnce ==
    \A n \in Node : \A i, j \in 1 .. commit[n] :
        /\ i # j /\ log[n][i].cmd = log[n][j].cmd
        /\ log[n][i].cmd.op \in {"put", "delete"}
        => ~(TakesEffect(n, i) /\ TakesEffect(n, j))

(* At most one client is told it created a name, unless it was deleted in  *)
(* between: if_none_match is a lock clients may rely on                    *)
(* (check_put_preconditions).                                              *)
CreatedOnce ==
    LET created(name) == {a \in answers : /\ a.cmd.op = "put" /\ a.cmd.name = name
                                          /\ a.cmd.if_none_match /\ a.result.kind = "put"}
        deletions(name) == {a \in [n : Node, i : 1 .. MaxLog] :
                               /\ a.i <= commit[a.n]
                               /\ log[a.n][a.i].cmd.op = "delete"
                               /\ log[a.n][a.i].cmd.name = name}
    IN  \A a, b \in answers :
            /\ a.cmd.name = b.cmd.name
            /\ {a, b} \subseteq created(a.cmd.name)
            /\ deletions(a.cmd.name) = {}
            => a = b

(* A waiter belongs to a client that waits for just this entry, and a      *)
(* client that waits has its waiter: no proposal is cleaned up for another *)
(* and none is left behind (PendingCleanup, remove_pending).               *)
WaitersAreAwaited ==
    \A n \in Node, c \in Client, i \in 1 .. MaxLog :
        waiters[n][i] = c <=> /\ client[c].phase = "waiting"
                              /\ client[c].at = [node |-> n, index |-> i]

(* Reads are linearizable (jepsen/README.md:7): a get that was sent after  *)
(* a put was acknowledged returns this put's generation or a later one, as *)
(* long as nobody deletes the name.                                        *)
ReadsAreFresh ==
    \A c \in Client : client[c].phase \in {"ready", "done"} => client[c].seen >= client[c].floor
=============================================================================
