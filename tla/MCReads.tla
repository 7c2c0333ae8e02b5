------------------------------ MODULE MCReads -------------------------------
(***************************************************************************)
(* LinearizableReads for three nodes, of which n1 leads first.             *)
(***************************************************************************)
EXTENDS LinearizableReads

CONSTANTS n1, n2, n3

Registered == <<[term |-> 1, cmd |-> [op |-> "register"]]>>

LogBounds == ("library" :> 2) @@ ("coordinator" :> 2) @@ ("none" :> 4)

TermBounds == ("library" :> 2) @@ ("coordinator" :> 3) @@ ("none" :> 3)

Campaigns == (2 :> {n2}) @@ (3 :> {n1})
=============================================================================
