----------------------------- MODULE MCOutboxRelay -----------------------------
(* Instances of OutboxRelay for TLC. *)
EXTENDS OutboxRelay

CONSTANTS own, all

\* A worker's own relay serves rows 1 and 2; outbox-relay serves all.
ScopeOf == [r \in Relay |-> IF r = own THEN {1, 2} ELSE Row]
================================================================================
