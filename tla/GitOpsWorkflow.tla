------------------------------ MODULE GitOpsWorkflow ------------------------------
(***************************************************************************)
(* Workflow runs of one deployment binding: a run per commit, approvals    *)
(* and agent commands per resource of the commit, and the table of the     *)
(* last approved state of each resource.  Handlers are delivered late,     *)
(* twice and out of order.                                                 *)
(***************************************************************************)
EXTENDS Integers, FiniteSets

CONSTANTS
    Item,           \* pairs <<commit, resource>>: what a commit changes
    Supported,      \* resources with fields in the diff model
    Progress,       \* workflow statuses the handlers write
    MaxClock        \* bound: completion times

ASSUME WorkflowAssumption ==
    /\ \A i \in Item : i = <<i[1], i[2]>> /\ i[1] # 0
    /\ MaxClock \in Nat

VARIABLES
    run,        \* commit -> status, command pointer
    approval,   \* item -> status
    command,    \* item -> status, result, completion time
    approved,   \* resource -> commit and completion time of the approved state
    handled,    \* <<item, completion time>> of every recorded command
    doneAt      \* clock of completions

workflowVars == <<run, approval, command, approved, handled, doneAt>>

Commits == {i[1] : i \in Item}
Resources == {i[2] : i \in Item}
Of(c) == {i \in Item : i[1] = c}
NoItem == <<0, 0>>

WorkflowInit ==
    /\ run = [c \in Commits |-> [status |-> "none", command |-> NoItem]]
    /\ approval = [i \in Item |-> "none"]
    /\ command = [i \in Item |-> [status |-> "none", result |-> "none", at |-> 0]]
    /\ approved = [r \in Resources |-> [commit |-> 0, at |-> 0]]
    /\ handled = {}
    /\ doneAt = 1

-----------------------------------------------------------------------------
(***************************************************************************)
(* Runs and steps.                                                         *)
(***************************************************************************)

WORKFLOW_STATUS_RANKS ==
    [s \in {"none", "started", "rendering", "diffing", "policy_checking", "waiting_for_approval",
            "applying", "rollout_waiting", "succeeded", "failed"} |->
        CASE s = "none" -> 0 [] s = "started" -> 1 [] s = "rendering" -> 2 [] s = "diffing" -> 3
          [] s = "policy_checking" -> 4 [] s = "waiting_for_approval" -> 5
          [] s = "applying" -> 6 [] s = "rollout_waiting" -> 7 [] OTHER -> 8]

workflow_transition_guard(old, new) ==
    /\ old \notin {"succeeded", "failed"}
    /\ WORKFLOW_STATUS_RANKS[old] <= WORKFLOW_STATUS_RANKS[new]

start_workflow_run(c, status) ==
    /\ \/ run[c].status = "none"
       \/ workflow_transition_guard(run[c].status, status) /\ run[c].status # status
    /\ run' = [run EXCEPT ![c] = [status |-> status, command |-> NoItem]]
    /\ UNCHANGED <<approval, command, approved, handled, doneAt>>

update_workflow_run(c, status) ==
    /\ run[c].status # "none"
    /\ workflow_transition_guard(run[c].status, status) /\ run[c].status # status
    /\ run' = [run EXCEPT ![c].status = status]
    /\ UNCHANGED <<approval, command, approved, handled, doneAt>>

\* The result of a command moves the run whose pointer names the command.
update_workflow_run_for_command(i, status) ==
    /\ \E c \in Commits :
          /\ run[c].command = i
          /\ workflow_transition_guard(run[c].status, status) /\ run[c].status # status
          /\ run' = [run EXCEPT ![c].status = status]
    /\ UNCHANGED <<approval, command, approved, handled, doneAt>>

-----------------------------------------------------------------------------
(***************************************************************************)
(* Approvals.                                                              *)
(***************************************************************************)

OPEN_APPROVAL_STATUSES == {"requested", "not_required"}

\* "expired" stands for an open approval whose expires_at has passed.

request_workflow_approval(i, status) ==
    /\ approval[i] \in OPEN_APPROVAL_STATUSES \cup {"none", "expired"}
    /\ approval' = [approval EXCEPT ![i] = status]
    /\ UNCHANGED <<run, command, approved, handled, doneAt>>

Expire(i) ==
    /\ approval[i] \in OPEN_APPROVAL_STATUSES
    /\ approval' = [approval EXCEPT ![i] = "expired"]
    /\ UNCHANGED <<run, command, approved, handled, doneAt>>

resolve_workflow_approval_if_open(i, status) ==
    /\ approval[i] \in OPEN_APPROVAL_STATUSES
    /\ approval' = [approval EXCEPT ![i] = status]
    /\ UNCHANGED <<run, command, approved, handled, doneAt>>

resolve_workflow_approval(i, status) ==
    /\ approval[i] # "none"
    /\ approval' = [approval EXCEPT ![i] = status]
    /\ UNCHANGED <<run, command, approved, handled, doneAt>>

-----------------------------------------------------------------------------
(***************************************************************************)
(* Commands and the approved state.                                        *)
(***************************************************************************)

\* A granted approval queues its command with the whole identity in its payload.
QueueCommand(i) ==
    /\ command[i].status = "none" /\ approval[i] = "granted"
    /\ command' = [command EXCEPT ![i].status = "queued"]
    /\ UNCHANGED <<run, approval, approved, handled, doneAt>>

attach_workflow_command(i) ==
    /\ run[i[1]].status # "none" /\ command[i].status # "none" /\ run[i[1]].command # i
    /\ run' = [run EXCEPT ![i[1]].command = i]
    /\ UNCHANGED <<approval, command, approved, handled, doneAt>>

CompleteCommand(i, status, result, at) ==
    /\ command[i].status = "queued" /\ at \in {doneAt, doneAt + 1} /\ at <= MaxClock
    /\ command' = [command EXCEPT ![i] = [status |-> status, result |-> result, at |-> at]]
    /\ doneAt' = at
    /\ UNCHANGED <<run, approval, approved, handled>>

\* applied, no failed resource and a rollout that is not known to be unready.
promotion_gate_from_command_result(i) == command[i].result # "refused"

\* The diff carried by the command names this run, binding, cluster and resource.
prepare_approved_resource_snapshots(c) ==
    IF \E i \in Of(c) : command[i].result = "foreign_diff" THEN {}
    ELSE {i \in Of(c) : command[i].status # "none" /\ i[2] \in Supported}

get_workflow_command_progress(c) ==
    [approvals |-> {i \in Of(c) : approval[i] # "none"},
     commands |-> {i \in Of(c) : command[i].status # "none"}]

\* A bug for newer: the completion times are not compared.
newer_or_not(i) == TRUE

\* The upsert's condition: a row of an earlier or the same completion.
newer(i) == approved[i[2]].at <= command[i].at

record_approved_workflow_snapshots(c) ==
    LET progress == get_workflow_command_progress(c)
        granted == {i \in progress.approvals : approval[i] = "granted"}
        prepared == prepare_approved_resource_snapshots(c)
    IN  /\ run[c].status # "none"
        /\ progress.approvals = granted
        /\ granted \subseteq progress.commands
        /\ progress.commands # {}
        /\ \A i \in progress.commands :
              command[i].status = "completed" /\ promotion_gate_from_command_result(i)
        /\ prepared # {}
        /\ approved' = [r \in Resources |->
              IF <<c, r>> \in prepared /\ newer(<<c, r>>)
              THEN [commit |-> c, at |-> command[<<c, r>>].at] ELSE approved[r]]
        /\ handled' = handled \cup {<<i, command[i].at>> : i \in prepared}
        /\ UNCHANGED <<run, approval, command, doneAt>>

-----------------------------------------------------------------------------
WorkflowNext ==
    \/ \E c \in Commits, s \in Progress : start_workflow_run(c, s) \/ update_workflow_run(c, s)
    \/ \E i \in Item, s \in Progress : update_workflow_run_for_command(i, s)
    \/ \E i \in Item, s \in OPEN_APPROVAL_STATUSES : request_workflow_approval(i, s)
    \/ \E i \in Item, s \in {"granted", "rejected"} :
          resolve_workflow_approval_if_open(i, s) \/ resolve_workflow_approval(i, s)
    \/ \E i \in Item : Expire(i) \/ QueueCommand(i) \/ attach_workflow_command(i)
    \/ \E i \in Item, at \in 1 .. MaxClock :
          \/ CompleteCommand(i, "failed", "refused", at)
          \/ \E result \in {"eligible", "refused", "foreign_diff"} : CompleteCommand(i, "completed", result, at)
    \/ \E c \in Commits : record_approved_workflow_snapshots(c)

WorkflowSpec == WorkflowInit /\ [][WorkflowNext]_workflowVars

-----------------------------------------------------------------------------
(***************************************************************************)
(* Properties.                                                             *)
(***************************************************************************)

\* Runs of two commits complete and are recorded in any order, late and again:
\* the approved state of a resource is always the newest of those recorded, and
\* it came from a command that completed (record_approved_workflow_snapshots).
ApprovedIsNewest ==
    \A r \in Resources :
        LET mine == {h \in handled : h[1][2] = r}
        IN  /\ (mine = {}) = (approved[r].commit = 0)
            /\ \A h \in mine : h[2] <= approved[r].at
            /\ mine # {} => /\ <<<<approved[r].commit, r>>, approved[r].at>> \in mine
                            /\ command[<<approved[r].commit, r>>].status = "completed"
=============================================================================
