----------------------------- MODULE ExactlyOnce -----------------------------
(***************************************************************************)
(* What a consumer of the event bus may rely on: an event that is offered   *)
(* is closed at most once, either with its business writes committed or in  *)
(* the dead-letter queue without them.                                      *)
(***************************************************************************)
EXTENDS Naturals

CONSTANT Event

VARIABLES
    outcome,    \* outcome[e]: "new", "open", "done" or "dead"
    effects     \* effects[e]: how often the event's work was committed

vars == <<outcome, effects>>

Init ==
    /\ outcome = [e \in Event |-> "new"]
    /\ effects = [e \in Event |-> 0]

Offer(e) ==
    /\ outcome[e] = "new"
    /\ outcome' = [outcome EXCEPT ![e] = "open"]
    /\ UNCHANGED effects

Perform(e) ==
    /\ outcome[e] = "open"
    /\ outcome' = [outcome EXCEPT ![e] = "done"]
    /\ effects' = [effects EXCEPT ![e] = @ + 1]

GiveUp(e) ==
    /\ outcome[e] = "open"
    /\ outcome' = [outcome EXCEPT ![e] = "dead"]
    /\ UNCHANGED effects

Next == \E e \in Event : Offer(e) \/ Perform(e) \/ GiveUp(e)

Spec == Init /\ [][Next]_vars
=============================================================================
