---------------------------- MODULE DurableState ----------------------------
(***************************************************************************)
(* What the Raft library expects of the code that persists its state       *)
(* (raft/event.rs, Effects.persist), as an abstract specification without  *)
(* files.                                                                  *)
(*                                                                         *)
(* recoverable is the set of states a restart may come back with.  A save  *)
(* adds the new state while it runs and leaves nothing else when it        *)
(* returns.  States may drop out of the set at any time, but never all of  *)
(* them; a restart picks one.                                              *)
(***************************************************************************)
CONSTANTS State, InitialState

VARIABLES
    status,         \* "down", "ready", "saving" or "failed"
    current,        \* the state in Raft's memory
    recoverable

durableVars == <<status, current, recoverable>>

Init ==
    /\ status = "down"
    /\ current = InitialState
    /\ recoverable = {InitialState}

SomeRemain == recoverable' \in SUBSET recoverable \ {{}}

(* Raft changes its state, and the save of it starts or fails at once.     *)
Change(p) ==
    /\ status \in {"ready", "failed"}
    /\ status' \in {"saving", "failed"}
    /\ current' = p
    /\ UNCHANGED recoverable

(* The save gets on, to where it may take effect.                          *)
SaveProceeds ==
    /\ status = "saving"
    /\ SomeRemain \/ recoverable' = recoverable \cup {current}
    /\ UNCHANGED <<status, current>>

SaveReturns ==
    /\ status = "saving"
    /\ status' = "ready"
    /\ recoverable' = {current}
    /\ UNCHANGED current

SaveFails ==
    /\ status = "saving"
    /\ status' = "failed"
    /\ SomeRemain
    /\ UNCHANGED current

Crash ==
    /\ status' = "down"
    /\ current' = InitialState
    /\ SomeRemain

Restart ==
    /\ status = "down"
    /\ status' = "ready"
    /\ SomeRemain
    /\ current' \in recoverable'

Next ==
    \/ \E p \in State : Change(p)
    \/ SaveProceeds \/ SaveReturns \/ SaveFails
    \/ Crash \/ Restart

Spec == Init /\ [][Next]_durableVars
=============================================================================
