------------------------------ MODULE KvState ------------------------------
(***************************************************************************)
(* The replicated key-value state machine (cloud9-node/src/command.rs):    *)
(* apply(state, command) is the state KvState.apply leaves and the result  *)
(* it returns.                                                             *)
(*                                                                         *)
(* A command is a record with a field op; a mutation also has client_id,   *)
(* sequence, name, if_match and, for a put, body and if_none_match.  A     *)
(* name is a (namespace, key) pair; sizes are not modelled, TooLong holds  *)
(* the names, bodies and ETags beyond the limits.                          *)
(***************************************************************************)
EXTENDS Integers

CONSTANTS TooLong,
          U64Max        \* the largest client id and generation

ASSUME U64Assumption == U64Max \in Nat \ {0}

NoEtag == <<>>
etag_for(generation) == <<generation>>

NoRequest == [op |-> "none"]
NoSession == [sequence |-> 0, request |-> NoRequest, result |-> [kind |-> "none"]]

new == [next_client_id |-> 1, next_generation |-> 1,
        entries |-> [name \in {} |-> NoRequest], sessions |-> [id \in {} |-> NoSession]]

Error(reason) == [kind |-> "error", reason |-> reason]

(* A map with the value of k set to v.                                     *)
insert(map, k, v) == [x \in DOMAIN map \cup {k} |-> IF x = k THEN v ELSE map[x]]

-----------------------------------------------------------------------------
(* The checks of put and delete requests, made by the service before a     *)
(* command is proposed and again when it is applied.                       *)
validate(c) ==
    /\ c.client_id # 0 /\ c.sequence # 0
    /\ c.name \notin TooLong /\ c.if_match \notin TooLong
    /\ c.op = "put" => /\ c.body \notin TooLong
                       /\ ~(c.if_match # NoEtag /\ c.if_none_match)

(* The request without its place in the session.                           *)
request(c) == [c EXCEPT !.client_id = 0, !.sequence = 0]

record(state, c, result) ==
    [state EXCEPT !.sessions[c.client_id] =
        [sequence |-> c.sequence, request |-> request(c), result |-> result]]

(* cached_mutation: what the session already knows about the request.      *)
Miss == [kind |-> "miss"]

Faulty_cached_mutation(session, c) == Miss

cached_mutation(session, c) ==
    CASE c.sequence < session.sequence -> Error("stale client sequence")
      [] c.sequence > session.sequence -> Miss
      [] c.sequence = session.sequence /\ request(c) = session.request -> session.result
      [] OTHER -> Error("sequence reused for different request")

(* What check_put_preconditions, the ETag check of apply_delete and        *)
(* next_generation reject.                                                 *)
EtagDiffers(state, c) ==
    /\ c.if_match # NoEtag
    /\ c.name \in DOMAIN state.entries => state.entries[c.name].etag # c.if_match

Faulty_Rejections(state, c) ==
    IF EtagDiffers(state, c) THEN {"EtagMismatch"} ELSE {}

Rejections(state, c) ==
    (IF c.op = "put" /\ c.if_none_match /\ c.name \in DOMAIN state.entries
     THEN {"KeyExists"} ELSE {})
    \cup (IF EtagDiffers(state, c) THEN {"EtagMismatch"} ELSE {})

GenerationExhausted(state, c) == c.op = "put" /\ state.next_generation >= U64Max

-----------------------------------------------------------------------------
Put(state, c) ==
    LET generation == state.next_generation
        rec == [body |-> c.body, etag |-> etag_for(generation), generation |-> generation]
        stored == [state EXCEPT !.next_generation = @ + 1,
                                !.entries = insert(@, c.name, rec)]
        response == [kind |-> "put", name |-> c.name,
                     etag |-> etag_for(generation), generation |-> generation]
    IN  [state |-> record(stored, c, response), result |-> response]

Delete(state, c) ==
    LET found == c.name \in DOMAIN state.entries
        removed == [state EXCEPT !.entries = [x \in DOMAIN @ \ {c.name} |-> @[x]]]
        response == [kind |-> "delete", name |-> c.name, deleted |-> found,
                     etag |-> IF found THEN state.entries[c.name].etag ELSE NoEtag,
                     generation |-> IF found THEN state.entries[c.name].generation ELSE 0]
    IN  [state |-> record(removed, c, response), result |-> response]

reject(state, c, reason) ==
    [state |-> record(state, c, Error(reason)), result |-> Error(reason)]

Refuse(state, reason) == [state |-> state, result |-> Error(reason)]

(* apply_put and apply_delete.                                             *)
apply_mutation(state, c) ==
    IF ~validate(c) THEN Refuse(state, "invalid argument")
    ELSE IF c.client_id \notin DOMAIN state.sessions THEN Refuse(state, "unknown client session")
    ELSE LET cached == cached_mutation(state.sessions[c.client_id], c)
         IN  IF cached # Miss THEN [state |-> state, result |-> cached]
             ELSE IF Rejections(state, c) # {}
             THEN reject(state, c, CHOOSE r \in Rejections(state, c) : TRUE)
             ELSE IF GenerationExhausted(state, c) THEN reject(state, c, "GenerationExhausted")
             ELSE IF c.op = "put" THEN Put(state, c) ELSE Delete(state, c)

(* next_client_id: the last id is never given out.                         *)
apply_register(state) ==
    LET id == state.next_client_id
    IN  IF id >= U64Max
        THEN Refuse(state, "client id space exhausted")
        ELSE [state |-> [state EXCEPT !.next_client_id = @ + 1,
                                      !.sessions = insert(@, id, NoSession)],
              result |-> [kind |-> "session", client_id |-> id]]

apply(state, c) ==
    CASE c.op = "register" -> apply_register(state)
      [] c.op = "barrier" -> [state |-> state, result |-> [kind |-> "barrier"]]
      [] OTHER -> apply_mutation(state, c)
=============================================================================
