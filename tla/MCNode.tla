------------------------------- MODULE MCNode -------------------------------
(***************************************************************************)
(* NodeRuntime for three nodes and clients whose sessions exist already.   *)
(***************************************************************************)
EXTENDS NodeRuntime

CONSTANTS n1, n2, n3, c1, c2, c3, key, long, v

Register == [term |-> 1, cmd |-> [op |-> "register"]]
Sessions == <<Register, Register>>

PutRequest(id, seq, etag, create) ==
    [op |-> "put", client_id |-> id, sequence |-> seq, name |-> key, body |-> v,
     if_match |-> etag, if_none_match |-> create]

DeleteRequest(id, seq, name) ==
    [op |-> "delete", client_id |-> id, sequence |-> seq, name |-> name, if_match |-> NoEtag]

Get == [op |-> "get", name |-> key]

(* Both clients create the key; or one puts it while the other deletes it, *)
(* or reads it after a request the service does not accept.                *)
Create(id) == PutRequest(id, 1, NoEtag, TRUE)
Overwrite(id) == PutRequest(id, 1, NoEtag, FALSE)
Invalid(id) == PutRequest(id, 1, etag_for(1), TRUE)

WritePrograms ==
    {(c1 :> <<Create(1)>>) @@ (c2 :> <<Create(2)>>)}
    \cup {(c1 :> <<Overwrite(1)>>) @@ (c2 :> second) :
             second \in {<<DeleteRequest(2, 1, key)>>, <<Invalid(2), Get>>}}

Sends == (c1 :> 3) @@ (c2 :> 1)

(* A put and two reads, each sent once.                                    *)
ReadPrograms == {(c1 :> <<Overwrite(1)>>) @@ (c2 :> <<Get>>) @@ (c3 :> <<Get>>)}
Once == [c \in Client |-> 1]

Campaigns == (2 :> {n2}) @@ (3 :> {n1})
=============================================================================
