--------------------------- MODULE RecoveryOutcome ---------------------------
(***************************************************************************)
(* What a recovery plan promises whoever reads its outcome.  The merge of a *)
(* pull request is accepted once, while proposals are being made; only      *)
(* accepted merges are deployed and verified, again after a failure; a plan *)
(* goes back to proposals from a failure only, never from a deployment or a *)
(* verification under way; and a plan that has recovered stays so.          *)
(*                                                                          *)
(* It does not promise that the second accepted merge replaces the first    *)
(* for good: a late result or retry of the first may take the plan back.    *)
(***************************************************************************)
CONSTANTS Pull, None

VARIABLES
    phase,      \* where the plan is
    merged,     \* the pull request that is deployed or verified
    accepted    \* the pull requests whose merge was accepted

Init == phase = "proposing" /\ merged = None /\ accepted = {}

Accept ==
    /\ phase = "proposing" /\ phase' = "deploying"
    /\ \E p \in Pull \ accepted : merged' = p /\ accepted' = accepted \cup {p}

Step(from, to) ==
    /\ phase = from /\ phase' = to
    /\ merged' \in accepted
    /\ UNCHANGED accepted

\* A retry of a proposal that failed finds the plan failed again.
Reopen ==
    /\ phase = "failed" /\ phase' = "proposing"
    /\ merged' = None
    /\ UNCHANGED accepted

Next ==
    \/ Accept \/ Reopen
    \/ Step("deploying", "verifying") \/ Step("deploying", "failed")
    \/ Step("verifying", "recovered") \/ Step("verifying", "failed")
    \/ \E from \in {"failed", "proposing"}, to \in {"deploying", "verifying"} :
          Step(from, to)

Spec == Init /\ [][Next]_<<phase, merged, accepted>>
================================================================================
