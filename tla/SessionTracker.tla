--------------------------- MODULE SessionTracker ---------------------------
(***************************************************************************)
(* The client session tracker (cloud9-raft-io/src/session.rs), which an    *)
(* application embeds in its replicated state machine, and the state       *)
(* machine of its documentation: apply checks for a duplicate, executes,   *)
(* and records the completion.                                             *)
(*                                                                         *)
(* The response of a command is its position in the history of executed    *)
(* commands, so an answer tells which execution it comes from.             *)
(***************************************************************************)
EXTENDS Integers, Sequences

NoResponse == 0

DefaultSession == [last_sequence |-> 0, last_response |-> NoResponse]

tracker_new == [sessions |-> [id \in {} |-> DefaultSession], next_client_id |-> 1]

insert(map, k, v) == [x \in DOMAIN map \cup {k} |-> IF x = k THEN v ELSE map[x]]

register_client(t) ==
    [sessions |-> insert(t.sessions, t.next_client_id, DefaultSession),
     next_client_id |-> t.next_client_id + 1]

(* "New", "Stale", or the cached response.                                 *)
Faulty_check_duplicate(t, id, sequence) ==
    IF id \in DOMAIN t.sessions /\ sequence = t.sessions[id].last_sequence
    THEN "Duplicate" ELSE "New"

check_duplicate(t, id, sequence) ==
    LET session == t.sessions[id]
    IN  CASE id \notin DOMAIN t.sessions -> "New"
          [] sequence > session.last_sequence -> "New"
          [] sequence < session.last_sequence -> "Stale"
          [] OTHER -> IF session.last_response = NoResponse THEN "New" ELSE "Duplicate"

record_completion(t, id, sequence, response) ==
    LET session == IF id \in DOMAIN t.sessions THEN t.sessions[id] ELSE DefaultSession
        completed == [last_sequence |-> sequence, last_response |-> response]
    IN  [t EXCEPT !.sessions =
            insert(@, id, IF sequence > session.last_sequence THEN completed ELSE session)]

expire_session(t, id) ==
    [t EXCEPT !.sessions = [x \in DOMAIN @ \ {id} |-> @[x]]]

-----------------------------------------------------------------------------
(* The state machine: a tracker and the history of executed requests.      *)
machine_new == [sessions |-> tracker_new, executed |-> <<>>]

apply(m, cmd) ==
    CASE cmd.op = "register" -> [m EXCEPT !.sessions = register_client(@)]
      [] cmd.op = "expire" -> [m EXCEPT !.sessions = expire_session(@, cmd.client)]
      [] cmd.op = "request" ->
            IF check_duplicate(m.sessions, cmd.client, cmd.sequence) # "New" THEN m
            ELSE LET history == Append(m.executed, <<cmd.client, cmd.sequence>>)
                 IN  [sessions |-> record_completion(m.sessions, cmd.client, cmd.sequence,
                                                     Len(history)),
                      executed |-> history]
=============================================================================
