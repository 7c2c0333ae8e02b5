--------------------------- MODULE ReplicatedLog ---------------------------
(***************************************************************************)
(* The replicated log as the code above the Raft library sees it: leaders  *)
(* come and go, a deposed leader may not know it, logs have uncommitted    *)
(* tails that a later leader replaces, and commit indices lag behind each  *)
(* other.                                                                  *)
(*                                                                         *)
(* This is what the library promises, not how it works: an election and an *)
(* exchange of append request and response are one step each, and a        *)
(* response counts only the entries the request carried.  Raft and Catchup *)
(* have the library's own steps.                                           *)
(***************************************************************************)
EXTENDS RaftLog, FiniteSets

CONSTANTS
    Node,
    BaseLog,        \* the log at the start, the same everywhere and committed
    MaxLog,         \* bound: the length of a log
    MaxTerm,        \* bound: the last term
    Campaigners,    \* bound: the nodes that may win the election of a term
    Delayed         \* bound: the nodes that may take over part of a leader's log

VARIABLES
    term, leading, log, commit,
    match           \* match[l][n]: how far n has acknowledged l's log

raftVars == <<term, leading, log, commit, match>>

Nothing == [n \in Node |-> 0]
Quorum(Q) == 2 * Cardinality(Q) > Cardinality(Node)

RaftInit(first) ==
    /\ term = [n \in Node |-> 1]
    /\ leading = [n \in Node |-> n = first]
    /\ log = [n \in Node |-> BaseLog]
    /\ commit = [n \in Node |-> Len(BaseLog)]
    /\ match = [n \in Node |-> Nothing]

(* n wins the next election with the votes of Q.                           *)
Elect(n, Q) ==
    LET t == term[n] + 1
    IN  /\ t <= MaxTerm /\ n \in Campaigners[t]
        /\ n \in Q /\ Quorum(Q)
        /\ \A q \in Q : /\ term[q] < t
                        /\ log_is_up_to_date(log[q], last_term(log[n]), last_index(log[n]))
        /\ term' = [q \in Node |-> IF q \in Q THEN t ELSE term[q]]
        /\ leading' = [q \in Node |-> IF q \in Q THEN q = n ELSE leading[q]]
        /\ match' = [q \in Node |-> IF q \in Q THEN Nothing ELSE match[q]]
        /\ UNCHANGED <<log, commit>>

(* The leader n appends a command.                                         *)
AppendCommand(n, cmd) ==
    /\ leading[n]
    /\ last_index(log[n]) < MaxLog
    /\ log' = [log EXCEPT ![n] = Append(@, [term |-> term[n], cmd |-> cmd])]
    /\ UNCHANGED <<term, leading, commit, match>>

(* n takes entries of the leader l over: all of them, or those up to k (a  *)
(* message carries max_entries_per_msg of them, one in cloud9-node).       *)
Replicate(l, n, k) ==
    /\ leading[l] /\ n # l /\ term[n] <= term[l]
    /\ k \in IF n \in Delayed THEN 0 .. last_index(log[l]) ELSE {last_index(log[l])}
    /\ log' = [log EXCEPT ![n] = append_entries(@, 0, SubSeq(log[l], 1, k))]
    /\ commit' = [commit EXCEPT ![n] = Max({@, Min({commit[l], k})})]
    /\ term' = [term EXCEPT ![n] = term[l]]
    /\ leading' = [leading EXCEPT ![n] = FALSE]
    /\ match' = [match EXCEPT ![n] = Nothing, ![l][n] = Max({@, k})]

(* The leader l learns that index i is committed.                          *)
Commit(l, i) ==
    /\ leading[l]
    /\ i \in commit[l] + 1 .. last_index(log[l])
    /\ log[l][i].term = term[l]
    /\ Quorum({l} \cup {n \in Node : match[l][n] >= i})
    /\ commit' = [commit EXCEPT ![l] = i]
    /\ UNCHANGED <<term, leading, log, match>>

(* n restarts: only its term and its log are on disk.                      *)
Reset(n) ==
    /\ leading' = [leading EXCEPT ![n] = FALSE]
    /\ commit' = [commit EXCEPT ![n] = 0]
    /\ match' = [match EXCEPT ![n] = Nothing]
    /\ UNCHANGED <<term, log>>

(* The longest committed log any node knows of.                            *)
Committed ==
    LET n == CHOOSE n \in Node : \A m \in Node : commit[m] <= commit[n]
    IN  SubSeq(log[n], 1, commit[n])
=============================================================================
