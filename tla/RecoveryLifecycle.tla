-------------------------- MODULE RecoveryLifecycle --------------------------
(***************************************************************************)
(* One recovery plan, from the operator's selection of an action through   *)
(* its Draft PR, merge and deployment to the verified recovery.             *)
(*                                                                          *)
(* domains/rca/repository.py                 the plan row and its updates   *)
(* domains/rca/router.py                     select and retry requests      *)
(* domains/gitops/router.py                  GitHub pull request webhooks   *)
(* services/ai/recovery-worker/app.py        planning and dispatch          *)
(* services/gitops/scm-worker/...            the Draft PR                   *)
(* services/ai/rca-feedback-worker/app.py    results applied to the plan    *)
(*                                                                          *)
(* A handler reads the row, waits for other reads, and then writes a whole  *)
(* lifecycle under a condition on the status alone.  The two halves are     *)
(* separate actions: a task is a handler between them, with the row it saw. *)
(* Requests of the gateway run side by side; a worker takes one event of a  *)
(* subject at a time.  Events are delivered once (EventRuntime), in any     *)
(* order; equal events in flight at the same time count as one.  attempt    *)
(* numbers the selections that were made: it stands for the uuid of         *)
(* lifecycle.attempt, and events carry it for the properties only.          *)
(***************************************************************************)
EXTENDS Integers, FiniteSets

CONSTANTS
    Action,       \* candidates of the plan
    Handoff,      \* candidates whose route makes no PR (approval_required)
    Pull,         \* pull request numbers
    None,         \* no action, no pull request, no run
    MaxAttempt,   \* bound: selections of the plan
    MaxCommit,    \* bound: moves of the authority commit
    MaxPush,      \* bound: pushes to one pull request after its creation
    MaxRetry,     \* bound: deploy retries of one merge
    MaxRequest    \* bound: gateway requests between their read and write

ASSUME RecoveryAssumption ==
    /\ Handoff \subseteq Action
    /\ None \notin Action /\ None \notin Pull
    /\ MaxAttempt \in Nat /\ MaxCommit \in Nat /\ MaxPush \in Nat
    /\ MaxRetry \in Nat /\ MaxRequest \in Nat

VARIABLES
    row,         \* the recovery_plans row: status, selected action, lifecycle
    attempts,    \* selections made so far
    approval,    \* approval[i]: commit recorded in granted approval i, or None
    authority,   \* commit of the GitOps authority context
    events,      \* events and webhooks in flight
    tasks,       \* handlers between their read and their write
    pulls,       \* pull requests of the plan on GitHub
    run          \* run[r]: workflow run r of the deploy executor

vars == <<row, attempts, approval, authority, events, tasks, pulls, run>>

Commit == 0..MaxCommit
Head == 0..MaxPush

\* recovery_approval_id is <<action, 0>>; recovery_retry_approval_id of the
\* attempt numbered n is <<action, n>>.
Approval == Action \X (0..MaxAttempt)

\* recovery_merge_workflow_run_id is <<pull, 0>>; deploy retry k is <<pull, k>>.
Run == Pull \X (0..MaxRetry)

ASSUME NoneIsNoRun == None \notin Run

Status == {"selection_requested", "selected", "pr_open", "deploy_pending",
           "verification_pending", "completed", "failed"}

Lifecycle == [attempt: 0..MaxAttempt, number: 0..MaxAttempt,
              pull: Pull \cup {None}, head: Head, blocked: BOOLEAN,
              run: Run \cup {None},
              failure: {"none", "rejected", "safe_pr", "deploy", "expired"}]

Row == [status: Status, action: Action \cup {None}, lc: Lifecycle]

NoLifecycle == [attempt |-> 0, number |-> 0, pull |-> None, head |-> 0,
                blocked |-> FALSE, run |-> None, failure |-> "none"]

Event == [kind: {"selected"}, approval: Approval, attempt: 1..MaxAttempt]
         \cup [kind: {"request"}, approval: Approval, attempt: 1..MaxAttempt,
               commit: Commit]
         \cup [kind: {"required"}, action: Action]
         \cup [kind: {"created"}, pull: Pull, head: Head, commit: Commit,
               approval: Approval, attempt: 1..MaxAttempt]
         \cup [kind: {"pr_failed"}, approval: Approval, attempt: 1..MaxAttempt]
         \cup [kind: {"synchronize"}, pull: Pull]
         \cup [kind: {"closed"}, pull: Pull, merged: BOOLEAN, head: Head]
         \cup [kind: {"pr_merged", "run_completed", "run_failed"}, run: Run]

Request == [kind: {"select"}, action: Action, commit: Commit]
           \cup [kind: {"retry"}, commit: Commit]
           \cup [kind: {"evidence"}]
           \cup [kind: {"merge"}, pull: Pull, head: Head]

PullRequest == [state: {"absent", "open", "closed", "merged"},
                branch: Approval \cup {None}, head: Head]

\* Every variable keeps its type.
TypeOK ==
    /\ row \in Row
    /\ attempts \in 0..MaxAttempt
    /\ approval \in [Approval -> Commit \cup {None}]
    /\ authority \in Commit
    /\ events \subseteq Event
    /\ tasks \subseteq [evt: Event \cup Request, seen: Row, copy: 0..MaxRequest]
    /\ pulls \in [Pull -> PullRequest]
    /\ run \in [Run -> {"absent", "requested", "succeeded", "failed"}]

NewRow == [status |-> "selection_requested", action |-> None, lc |-> NoLifecycle]

\* upsert_recovery_plan has stored the plan; nothing is selected.
Init ==
    /\ row = NewRow
    /\ attempts = 0
    /\ approval = [i \in Approval |-> None]
    /\ authority = 0
    /\ events = {}
    /\ tasks = {}
    /\ pulls = [p \in Pull |-> [state |-> "absent", branch |-> None, head |-> 0]]
    /\ run = [r \in Run |-> "absent"]

-----------------------------------------------------------------------------
(* Reads and writes of the row. *)

\* A read half: the handler of evt holds what it has read of the row.  Equal
\* requests that read the same are told apart by their copy.
HoldSeen(evt, seen) ==
    \E n \in 0..MaxRequest :
       LET Task(m) == [evt |-> evt, seen |-> seen, copy |-> m] IN
       /\ Task(n) \notin tasks /\ \A m \in 0..(n - 1) : Task(m) \in tasks
       /\ tasks' = tasks \cup {Task(n)}

Hold(evt) == HoldSeen(evt, row)

\* A gateway request may start while others are being handled.
GatewayKind == {"select", "retry", "synchronize", "closed", "merge"}
Room == Cardinality({t \in tasks : t.evt.kind \in GatewayKind}) < MaxRequest

\* A worker takes the events of one subject one after the other.
SubjectFree(kind) == \A t \in tasks : t.evt.kind # kind

\* A bug for Cas: the update does not look at the status.
CasAnyStatus(expected, status, action, lc) ==
    row' = [status |-> status, action |-> action, lc |-> lc]

\* update_recovery_plan_lifecycle_if_status: the condition is the status only.
Cas(expected, status, action, lc) ==
    IF row.status = expected
    THEN row' = [status |-> status, action |-> action, lc |-> lc]
    ELSE UNCHANGED row

\* reopen_recovery_plan_action: the condition is the status and the action.
Reopen(a) ==
    IF row.status = "selected" /\ row.action = a
    THEN row' = [row EXCEPT !.status = "selection_requested", !.action = None]
    ELSE UNCHANGED row

\* request_workflow_approval: a granted approval is never overwritten.
Grant(i, c) ==
    approval' = [approval EXCEPT ![i] = IF @ = None THEN c ELSE @]

\* Another selection fits the bound, those under way included.
AttemptLeft ==
    attempts + Cardinality({t \in tasks : t.evt.kind \in {"select", "retry"}})
        < MaxAttempt

-----------------------------------------------------------------------------
(* Planning, selection and dispatch. *)

\* upsert_recovery_plan of a plan analysed again: it replaces the payload,
\* the lifecycle with it, unless the status is one of the monotonic ones.
Replan ==
    /\ row.status = "selection_requested"
    /\ row' = [row EXCEPT !.lc = NoLifecycle]
    /\ UNCHANGED <<attempts, approval, authority, events, tasks, pulls, run>>

\* _select_recovery_action_from_record up to the transaction: the preflight
\* reads the authority; nothing of the row is used later, so NewRow stands
\* for it.
SelectRequest(a) ==
    /\ Room /\ AttemptLeft
    /\ HoldSeen([kind |-> "select", action |-> a, commit |-> authority], NewRow)
    /\ UNCHANGED <<row, attempts, approval, authority, events, pulls, run>>

\* The preflight of a select or of a retry fails: the request ends with 409
\* and an RcaActionRequired that names the plan and the action.
PreflightFails(a) ==
    /\ a \notin Handoff
    /\ events' = events \cup {[kind |-> "required", action |-> a]}
    /\ UNCHANGED <<row, attempts, approval, authority, tasks, pulls, run>>

\* The row and the event of a new selection of a under approval i.
Selected(a, i, number) ==
    /\ attempts' = attempts + 1
    /\ row' = [status |-> "selected", action |-> a,
               lc |-> [NoLifecycle EXCEPT !.attempt = attempts + 1,
                                          !.number = number]]
    /\ events' = events \cup {[kind |-> "selected", approval |-> i,
                               attempt |-> attempts + 1]}

\* The transaction of a selection.
Select(t) ==
    LET i == <<t.evt.action, 0>> IN
    /\ t \in tasks /\ t.evt.kind = "select"
    /\ tasks' = tasks \ {t}
    /\ IF row.status = "selection_requested"
       THEN /\ Selected(t.evt.action, i, row.lc.number + 1)
            /\ Grant(i, t.evt.commit)
       ELSE UNCHANGED <<row, attempts, approval, events>>
    /\ UNCHANGED <<authority, pulls, run>>

\* dispatch-worker: the authority is read again for the PR request.  A route
\* without PR asks for a person and leaves the plan as it is.
Dispatch(e) ==
    /\ e \in events /\ e.kind = "selected"
    /\ \E out \in IF e.approval[1] \in Handoff THEN {{}}
                  ELSE {{[kind |-> "request", approval |-> e.approval,
                          attempt |-> e.attempt, commit |-> authority]},
                        {[kind |-> "required", action |-> e.approval[1]]}} :
           events' = (events \ {e}) \cup out
    /\ UNCHANGED <<row, attempts, approval, authority, tasks, pulls, run>>

\* on_rca_action_required with one of the retryable reasons.
OnActionRequired(e) ==
    /\ e \in events /\ e.kind = "required"
    /\ events' = events \ {e}
    /\ Reopen(e.action)
    /\ UNCHANGED <<attempts, approval, authority, tasks, pulls, run>>

-----------------------------------------------------------------------------
(* The Draft PR.  Its branch is named after the approval. *)

OpenOn(i) == {p \in Pull : pulls[p].state = "open" /\ pulls[p].branch = i}

CreatedEvent(e, p, head) ==
    [kind |-> "created", pull |-> p, head |-> head, commit |-> e.commit,
     approval |-> e.approval, attempt |-> e.attempt]

FailedEvent(e) ==
    [kind |-> "pr_failed", approval |-> e.approval, attempt |-> e.attempt]

\* A new PR on the branch of the request.
MakePull(e, p) ==
    /\ OpenOn(e.approval) = {}
    /\ pulls[p].state = "absent"
    /\ pulls' = [pulls EXCEPT ![p] = [state |-> "open", head |-> 0,
                                      branch |-> e.approval]]

\* create_pull_request finds no open PR on the branch and makes one, or finds
\* the open PR of an earlier request on it and reuses it.
CreatePull(e) ==
    /\ e \in events /\ e.kind = "request"
    /\ \/ \E p \in Pull :
             /\ MakePull(e, p)
             /\ events' = (events \ {e}) \cup {CreatedEvent(e, p, 0)}
       \/ \E p \in OpenOn(e.approval) :
             /\ events' = (events \ {e}) \cup {CreatedEvent(e, p, pulls[p].head)}
             /\ UNCHANGED pulls
    /\ UNCHANGED <<row, attempts, approval, authority, tasks, run>>

\* The request is refused by policy, preflight or GitHub; or the deadline of
\* the creation passes after GitHub has made the PR.
CreatePullFails(e) ==
    /\ e \in events /\ e.kind = "request"
    /\ events' = (events \ {e}) \cup {FailedEvent(e)}
    /\ \/ UNCHANGED pulls
       \/ \E p \in Pull : MakePull(e, p)
    /\ UNCHANGED <<row, attempts, approval, authority, tasks, run>>

\* The open PR on the branch does not match the request (it is no longer a
\* draft, or its text differs): the files are written to its branch before
\* the PR is refused as a duplicate, and then reused or given up.
PushOntoPull(e, p) ==
    /\ e \in events /\ e.kind = "request"
    /\ p \in OpenOn(e.approval) /\ pulls[p].head < MaxPush
    /\ pulls' = [pulls EXCEPT ![p].head = @ + 1]
    /\ \E out \in {FailedEvent(e), CreatedEvent(e, p, pulls[p].head + 1)} :
           events' = (events \ {e})
                     \cup {out, [kind |-> "synchronize", pull |-> p]}
    /\ UNCHANGED <<row, attempts, approval, authority, tasks, run>>

-----------------------------------------------------------------------------
(* rca-feedback-worker: results of the PR. *)

\* A bug for Wanted: a failed PR is looked up under the first approval only.
WantedFirstApproval(e) ==
    \/ /\ e.kind = "created"
       /\ row.status = "selected" /\ row.action \notin Handoff
    \/ /\ e.kind = "pr_failed"
       /\ row.status = "selected" /\ e.approval = <<row.action, 0>>
    \/ /\ e.kind \in {"pr_merged", "run_completed", "run_failed"}
       /\ row.status = "deploy_pending" /\ row.lc.run = e.run

\* The early returns after the row is read.
Wanted(e) ==
    \/ /\ e.kind = "created"
       /\ row.status = "selected" /\ row.action \notin Handoff
    \/ /\ e.kind = "pr_failed"
       /\ row.status = "selected" /\ row.action = e.approval[1]
    \/ /\ e.kind \in {"pr_merged", "run_completed", "run_failed"}
       /\ row.status = "deploy_pending" /\ row.lc.run = e.run

\* A handler of the feedback worker reads the row.
FeedbackRead(e) ==
    /\ e \in events
    /\ e.kind \in {"created", "pr_failed", "pr_merged", "run_completed",
                   "run_failed"}
    /\ SubjectFree(e.kind)
    /\ events' = events \ {e}
    /\ IF Wanted(e) THEN Hold(e) ELSE UNCHANGED tasks
    /\ UNCHANGED <<row, attempts, approval, authority, pulls, run>>

\* on_recovery_safe_pr_created: the commit of the PR is compared with the
\* commit of the action's recovery-action approval (safe_pr_identity_error).
\* blocked: verification prerequisites are missing.
OnSafePrCreated(t) ==
    /\ t \in tasks /\ t.evt.kind = "created"
    /\ tasks' = tasks \ {t}
    /\ \/ /\ approval[<<t.seen.action, 0>>] # t.evt.commit
          /\ Reopen(t.seen.action)
       \/ /\ approval[<<t.seen.action, 0>>] = t.evt.commit
          /\ \E blocked \in BOOLEAN :
                Cas("selected", "pr_open", row.action,
                    [NoLifecycle EXCEPT !.attempt = t.seen.lc.attempt,
                                        !.number = t.seen.lc.number,
                                        !.pull = t.evt.pull,
                                        !.head = t.evt.head,
                                        !.blocked = blocked])
    /\ UNCHANGED <<attempts, approval, authority, events, pulls, run>>

\* on_recovery_safe_pr_failed.
OnSafePrFailed(t) ==
    /\ t \in tasks /\ t.evt.kind = "pr_failed"
    /\ tasks' = tasks \ {t}
    /\ Cas("selected", "failed", row.action,
           [t.seen.lc EXCEPT !.failure = "safe_pr"])
    /\ UNCHANGED <<attempts, approval, authority, events, pulls, run>>

-----------------------------------------------------------------------------
(* GitHub and its webhooks. *)

\* Somebody pushes to, closes or merges a pull request; the authority context
\* follows a later deployment.
GitHubChanges(p) ==
    /\ pulls[p].state = "open"
    /\ \/ /\ pulls[p].head < MaxPush
          /\ pulls' = [pulls EXCEPT ![p].head = @ + 1]
          /\ events' = events \cup {[kind |-> "synchronize", pull |-> p]}
       \/ \E merged \in BOOLEAN :
          /\ pulls' = [pulls EXCEPT ![p].state =
                           IF merged THEN "merged" ELSE "closed"]
          /\ events' = events \cup {[kind |-> "closed", pull |-> p,
                                     merged |-> merged,
                                     head |-> pulls[p].head]}
    /\ UNCHANGED <<row, attempts, approval, authority, tasks, run>>

AuthorityMoves ==
    /\ authority < MaxCommit
    /\ authority' = authority + 1
    /\ UNCHANGED <<row, attempts, approval, events, tasks, pulls, run>>

\* handle_tracked_recovery_pull_request looks for the plan that tracks the PR.
\* A webhook that finds none is done; so is one that GitHub fails to deliver.
WebhookRead(e) ==
    /\ e \in events /\ e.kind \in {"synchronize", "closed"}
    /\ events' = events \ {e}
    /\ \/ /\ Room
          /\ row.status = "pr_open" /\ row.lc.pull = e.pull
          /\ Hold(e)
       \/ UNCHANGED tasks
    /\ UNCHANGED <<row, attempts, approval, authority, pulls, run>>

\* reject_tracked_recovery_pull_request: selection is open again.
RejectPull(t) ==
    Cas("pr_open", "selection_requested", None,
        [t.seen.lc EXCEPT !.failure = "rejected"])

\* A push, or a PR closed without merge.
WebhookRejects(t) ==
    /\ t \in tasks
    /\ \/ t.evt.kind = "synchronize"
       \/ t.evt.kind = "closed" /\ ~t.evt.merged
    /\ tasks' = tasks \ {t}
    /\ RejectPull(t)
    /\ UNCHANGED <<attempts, approval, authority, events, pulls, run>>

\* A bug for WebhookReadExact: the head is left out of the second lookup.
WebhookReadAnyHead(t) ==
    /\ t \in tasks /\ t.evt.kind = "closed" /\ t.evt.merged
    /\ IF row.status = "pr_open" /\ row.lc.pull = t.evt.pull
       THEN /\ tasks' = (tasks \ {t}) \cup
                        {[evt |-> [kind |-> "merge", pull |-> t.evt.pull,
                                   head |-> t.evt.head], seen |-> row,
                         copy |-> t.copy]}
            /\ UNCHANGED row
       ELSE /\ tasks' = tasks \ {t}
            /\ RejectPull(t)
    /\ UNCHANGED <<attempts, approval, authority, events, pulls, run>>

\* find_open_recovery_plan_for_pull_request: the row again, with the head.
WebhookReadExact(t) ==
    /\ t \in tasks /\ t.evt.kind = "closed" /\ t.evt.merged
    /\ IF row.status = "pr_open" /\ row.lc.pull = t.evt.pull
                                 /\ row.lc.head = t.evt.head
       THEN /\ tasks' = (tasks \ {t}) \cup
                        {[evt |-> [kind |-> "merge", pull |-> t.evt.pull,
                                   head |-> t.evt.head], seen |-> row,
                         copy |-> t.copy]}
            /\ UNCHANGED row
       ELSE /\ tasks' = tasks \ {t}
            /\ RejectPull(t)
    /\ UNCHANGED <<attempts, approval, authority, events, pulls, run>>

-----------------------------------------------------------------------------
(* Merge, deployment and verification. *)

RunResult(r, state) ==
    [kind |-> IF state = "succeeded" THEN "run_completed" ELSE "run_failed",
     run |-> r]

\* A deployment request (GitWebhookReceived) reaches the executor.  A run that
\* has ended is not run again: workflow states never go back, and its result
\* is reported once more.  E: the events emitted with the request.
RequestRun(r, E) ==
    /\ run' = [run EXCEPT ![r] = IF @ = "absent" THEN "requested" ELSE @]
    /\ events' = events \cup E \cup
                 IF run[r] \in {"succeeded", "failed"}
                 THEN {RunResult(r, run[r])} ELSE {}

\* The executor ends a run and reports it.
RunEnds(r) ==
    /\ run[r] = "requested"
    /\ \E state \in {"succeeded", "failed"} :
          /\ run' = [run EXCEPT ![r] = state]
          /\ events' = events \cup {RunResult(r, state)}
    /\ UNCHANGED <<row, attempts, approval, authority, tasks, pulls>>

\* The PR was merged with the tracked head.  Without an active binding or a
\* complete deployment context it is rejected; with missing verification
\* prerequisites the webhook is refused (409); else it is deployed.
WebhookMerges(t) ==
    LET r == <<t.evt.pull, 0>> IN
    /\ t \in tasks /\ t.evt.kind = "merge"
    /\ tasks' = tasks \ {t}
    /\ \/ /\ RejectPull(t)
          /\ UNCHANGED <<events, run>>
       \/ /\ t.seen.lc.blocked
          /\ UNCHANGED <<row, events, run>>
       \/ /\ ~t.seen.lc.blocked
          /\ Cas("pr_open", "deploy_pending", row.action,
                 [t.seen.lc EXCEPT !.run = r])
          /\ IF row.status = "pr_open"
             THEN RequestRun(r, {[kind |-> "pr_merged", run |-> r]})
             ELSE UNCHANGED <<events, run>>
    /\ UNCHANGED <<attempts, approval, authority, pulls>>

\* A bug for StartVerification: the workflow run is not read.
StartVerificationUnread(t) ==
    /\ t \in tasks /\ t.evt.kind \in {"run_completed", "pr_merged"}
    /\ tasks' = tasks \ {t}
    /\ Cas("deploy_pending", "verification_pending", row.action, t.seen.lc)
    /\ UNCHANGED <<attempts, approval, authority, events, pulls, run>>

\* start_recovery_verification, of a finished run or of the merge event.
StartVerification(t) ==
    /\ t \in tasks /\ t.evt.kind \in {"run_completed", "pr_merged"}
    /\ tasks' = tasks \ {t}
    /\ IF run[t.evt.run] = "succeeded"
       THEN Cas("deploy_pending", "verification_pending", row.action, t.seen.lc)
       ELSE UNCHANGED row
    /\ UNCHANGED <<attempts, approval, authority, events, pulls, run>>

\* A bug for OnDeployFailed: the status expected is the one after the deploy.
OnDeployFailedLate(t) ==
    /\ t \in tasks /\ t.evt.kind = "run_failed"
    /\ tasks' = tasks \ {t}
    /\ Cas("verification_pending", "failed", row.action,
           [t.seen.lc EXCEPT !.failure = "deploy"])
    /\ UNCHANGED <<attempts, approval, authority, events, pulls, run>>

\* on_recovery_deploy_failed.
OnDeployFailed(t) ==
    /\ t \in tasks /\ t.evt.kind = "run_failed"
    /\ tasks' = tasks \ {t}
    /\ Cas("deploy_pending", "failed", row.action,
           [t.seen.lc EXCEPT !.failure = "deploy"])
    /\ UNCHANGED <<attempts, approval, authority, events, pulls, run>>

\* on_recovery_verification_evidence reads the plans that wait for evidence.
EvidenceRead ==
    /\ row.status = "verification_pending"
    /\ SubjectFree("evidence")
    /\ Hold([kind |-> "evidence"])
    /\ UNCHANGED <<row, attempts, approval, authority, events, pulls, run>>

\* A bug for OnEvidence: the decision's status is stored as the plan's.
OnEvidenceDecisionStatus(t) ==
    /\ t \in tasks /\ t.evt.kind = "evidence"
    /\ tasks' = tasks \ {t}
    /\ \E status \in {"pending", "completed", "failed"} :
          Cas("verification_pending", status, row.action, t.seen.lc)
    /\ UNCHANGED <<attempts, approval, authority, events, pulls, run>>

\* A bug for OnEvidence: a failure is not recorded in the lifecycle.
OnEvidenceUnrecorded(t) ==
    /\ t \in tasks /\ t.evt.kind = "evidence"
    /\ tasks' = tasks \ {t}
    /\ \E status \in {"verification_pending", "completed", "failed"} :
          Cas("verification_pending", status, row.action, t.seen.lc)
    /\ UNCHANGED <<attempts, approval, authority, events, pulls, run>>

\* The verdict of evaluate_recovery_evidence is left open here; every failure
\* it reports is verification_window_expired.
OnEvidence(t) ==
    /\ t \in tasks /\ t.evt.kind = "evidence"
    /\ tasks' = tasks \ {t}
    /\ \/ Cas("verification_pending", "verification_pending", row.action,
              t.seen.lc)
       \/ Cas("verification_pending", "completed", row.action,
              [t.seen.lc EXCEPT !.failure = "none"])
       \/ Cas("verification_pending", "failed", row.action,
              [t.seen.lc EXCEPT !.failure = "expired"])
    /\ UNCHANGED <<attempts, approval, authority, events, pulls, run>>

-----------------------------------------------------------------------------
(* retry_recovery_by_correlation. *)

\* The checks of a retry on the failed row it reads: deploy_retry_body and
\* verification_retry_lifecycle look at the workflow run.
Retryable(r) ==
    /\ r.status = "failed" /\ r.action # None
    /\ \/ r.lc.failure = "safe_pr" /\ r.action \notin Handoff
       \/ r.lc.failure = "deploy" /\ r.lc.run # None /\ run[r.lc.run] = "failed"
       \/ r.lc.failure = "expired" /\ r.lc.run # None
                                   /\ run[r.lc.run] = "succeeded"

RetryRequest ==
    /\ Room
    /\ Retryable(row)
    /\ row.lc.failure = "safe_pr" => AttemptLeft
    /\ row.lc.failure = "deploy" => row.lc.run[2] < MaxRetry
    /\ Hold([kind |-> "retry", commit |-> authority])
    /\ UNCHANGED <<row, attempts, approval, authority, events, pulls, run>>

\* A PR that failed is requested again, under an approval of the attempt that
\* is written before the row is.
RetryPull(t) ==
    LET n == t.seen.lc.number + 1
        i == <<t.seen.action, n>>
    IN  /\ Grant(i, t.evt.commit)
        /\ IF row.status = "failed" THEN Selected(row.action, i, n)
           ELSE UNCHANGED <<row, attempts, events>>
        /\ UNCHANGED run

\* A failed deployment is requested again as a run of its own.
RetryDeploy(t) ==
    LET r == <<t.seen.lc.run[1], t.seen.lc.run[2] + 1>> IN
    /\ Cas("failed", "deploy_pending", row.action,
           [t.seen.lc EXCEPT !.run = r, !.failure = "none"])
    /\ IF row.status = "failed" THEN RequestRun(r, {})
       ELSE UNCHANGED <<events, run>>
    /\ UNCHANGED <<attempts, approval>>

\* An expired verification starts again.
RetryVerification(t) ==
    /\ Cas("failed", "verification_pending", row.action,
           [t.seen.lc EXCEPT !.failure = "none"])
    /\ UNCHANGED <<attempts, approval, events, run>>

Retry(t) ==
    /\ t \in tasks /\ t.evt.kind = "retry"
    /\ tasks' = tasks \ {t}
    /\ \/ t.seen.lc.failure = "safe_pr" /\ RetryPull(t)
       \/ t.seen.lc.failure = "deploy" /\ RetryDeploy(t)
       \/ t.seen.lc.failure = "expired" /\ RetryVerification(t)
    /\ UNCHANGED <<authority, pulls>>

-----------------------------------------------------------------------------
Worker(e) ==
    \/ Dispatch(e) \/ OnActionRequired(e) \/ CreatePull(e)
    \/ CreatePullFails(e) \/ FeedbackRead(e)

Finish(t) ==
    \/ Select(t) \/ Retry(t)
    \/ WebhookRejects(t) \/ WebhookReadExact(t) \/ WebhookMerges(t)
    \/ OnSafePrCreated(t) \/ OnSafePrFailed(t)
    \/ StartVerification(t) \/ OnDeployFailed(t) \/ OnEvidence(t)

Next ==
    \/ Replan \/ RetryRequest \/ EvidenceRead \/ AuthorityMoves
    \/ \E a \in Action : SelectRequest(a) \/ PreflightFails(a)
    \/ \E e \in events : Worker(e) \/ WebhookRead(e)
                         \/ \E p \in Pull : PushOntoPull(e, p)
    \/ \E p \in Pull : GitHubChanges(p)
    \/ \E r \in Run : RunEnds(r)
    \/ \E t \in tasks : Finish(t)

Spec == Init /\ [][Next]_vars

\* Every subject has a consumer that goes on while events wait, and every
\* handler that has read the row comes to its write.  Operators, GitHub, the
\* executor and the evidence of the cluster owe nothing.
Kind == {"selected", "request", "required", "created", "pr_failed",
         "pr_merged", "run_completed", "run_failed"}
TaskKind == GatewayKind \cup (Kind \ {"selected", "request", "required"})
                        \cup {"evidence"}

Fairness ==
    /\ \A k \in Kind :
          WF_vars(\E e \in events : e.kind = k /\ Worker(e))
    /\ \A k \in TaskKind :
          WF_vars(\E t \in tasks : t.evt.kind = k /\ Finish(t))

FairSpec == Spec /\ Fairness

-----------------------------------------------------------------------------
(* Properties. *)

\* What is deployed is what was approved: the run that the row names deploys
\* the merge of the tracked pull request, its head when it was merged is the
\* head that was tracked, and its verification prerequisites were complete,
\* however webhooks, pushes and other selections interleave with the handler.
MergedAsTracked ==
    row.lc.run # None =>
        /\ row.lc.pull = row.lc.run[1]
        /\ pulls[row.lc.pull].state = "merged"
        /\ pulls[row.lc.pull].head = row.lc.head
        /\ ~row.lc.blocked

\* Verification begins, and a recovery completes, only when the run that the
\* row names has succeeded (start_recovery_verification reads the run, a
\* retry of the verification reads it again).
VerifiedWasDeployed ==
    row.status \in {"verification_pending", "completed"} =>
        row.lc.run # None /\ run[row.lc.run] = "succeeded"

\* A plan that failed after its merge can be retried: the failure it records
\* agrees with the workflow run that deploy_retry_body or
\* verification_retry_lifecycle will look at.
FailedIsRetryable ==
    row.status = "failed" /\ row.lc.failure # "safe_pr" => Retryable(row)

Phase ==
    IF row.lc.run = None THEN "proposing"
    ELSE IF row.status = "deploy_pending" THEN "deploying"
    ELSE IF row.status = "verification_pending" THEN "verifying"
    ELSE IF row.status = "completed" THEN "recovered"
    ELSE IF row.status = "failed" THEN "failed"
    ELSE "reopened"

Merged == IF row.lc.run = None THEN None ELSE row.lc.run[1]

Accepted == {p \in Pull : run[<<p, 0>>] # "absent"}

Outcome == INSTANCE RecoveryOutcome
           WITH phase <- Phase, merged <- Merged, accepted <- Accepted

\* The row implements RecoveryOutcome: a merge is accepted once, a plan that
\* is being deployed or verified is not reopened by any stale selection,
\* webhook, result or retry and stays with merges that were accepted, and a
\* completed plan never changes.
OnlyAcceptedMerges == Outcome!Spec

\* A selection of an action with a PR route is answered: the plan leaves the
\* selected status, by a tracked PR, a failure or a reopened selection.
SelectionAnswered ==
    (row.status = "selected" /\ row.action \notin Handoff)
        ~> row.status # "selected"

\* A deployment that has ended is taken up: the plan leaves deploy_pending,
\* whichever order the merge event and the result of the run arrive in.
DeploymentAnswered ==
    (row.status = "deploy_pending" /\ run[row.lc.run] \in {"succeeded", "failed"})
        ~> row.status # "deploy_pending"

\* "Bind only a complete GitHub PR identity to the selected recovery": the
\* pull request that a plan tracks was made for the action it has selected.
TrackedPullIsSelected ==
    row.status = "pr_open" => pulls[row.lc.pull].branch[1] = row.action

\* A retried action is tried with the latest authority context: the PR that
\* the current attempt made, from the commit its own approval recorded, is
\* tracked and not sent back.
RetryHonoured ==
    [][\A t \in tasks \ tasks' :
          /\ t.evt.kind = "created"
          /\ row.status = "selected" /\ row.lc.attempt = t.evt.attempt
          /\ t.seen = row
          /\ approval[t.evt.approval] = t.evt.commit
          => row'.status = "pr_open"]_vars
================================================================================
