---------------------------- MODULE MCEventRuntime ----------------------------
(* Instances of EventRuntime for TLC. *)
EXTENDS EventRuntime, TLC

\* Copy 0 of an event, where a configuration has one, does not decode.
Garbage == {m \in Message : m.copy = 0}

Symmetry == Permutations(Worker)
===============================================================================
