------------------------------ MODULE MCStore ------------------------------
(***************************************************************************)
(* RaftStore with two terms, one candidate and logs of two entries.        *)
(***************************************************************************)
EXTENDS RaftStore

CONSTANTS MaxTerm, MaxLog, Candidate

Logs == {lg \in UNION {[1 .. k -> [term : 1 .. MaxTerm]] : k \in 0 .. MaxLog} :
             \A i \in 2 .. Len(lg) : lg[i - 1].term <= lg[i].term}

States ==
    {p \in [term : 0 .. MaxTerm, voted_for : {None, Candidate}, log : Logs] :
        /\ last_term(p.log) <= p.term
        /\ p.term = 0 => p.voted_for = None}
=============================================================================
