-------------------------- MODULE RecoveryDispatch --------------------------
(***************************************************************************)
(* From a chosen recovery action to the deployment its merge authorises.   *)
(* The GitOps authority (services/ai/agent/recovery/authority.py) is put   *)
(* together by separate reads; the preflight of a selection loads it twice *)
(* and the worker a third time, while people push, deployments finish and  *)
(* rows are edited or retired in between.  The patch made from it          *)
(* (dispatch.py, domains/gitops/source_patch.py) is written into one file  *)
(* of the repository (kustomize_edit_source.py), and the deployment of the *)
(* merged pull request is let through without a second approval only when  *)
(* its diff is the authorised change (recovery_merge.py).                  *)
(*                                                                         *)
(* A manifest gives every scalar an integer, 0 when it is absent or cannot *)
(* be read; probe paths that do not start with a slash are negative.       *)
(* Memory is in MiB.  A digest is the manifest itself.                     *)
(***************************************************************************)
EXTENDS Integers, Sequences, FiniteSets, SequencesExt

CONSTANTS
    Scenario,     \* what is recovered and how its repository is laid out
    MEMORY_CAP,   \* the largest memory limit a patch may set
    MaxEdits      \* bound: rows edited or retired and live objects changed by hand

VARIABLES
    scenario,
    gitLog,       \* the branch: the raw manifest of each commit
    shipped,      \* deployments, one per commit: their source and their changes
    runs,         \* deployments whose workflow run row is retained
    rows,         \* the application, binding and repository rows
    live,         \* the object in the cluster
    stage,        \* where the recovery stands
    load,         \* the authority being loaded
    selection,    \* the parameters the preflight stored with the choice
    request,      \* the Safe PR request of the worker
    edit,         \* the file the pull request changes
    merge,        \* the merged commit and what its deployment was granted on
    edits

dispatchVars == <<scenario, gitLog, shipped, runs, rows, live, stage, load, selection,
                  request, edit, merge, edits>>

ContainerField == {"image", "limit", "request", "ready_timeout", "live_timeout", "ready_path"}
LabelPair == {<<"selector_a", "label_a">>, <<"selector_b", "label_b">>}
ScalarField == ContainerField \cup {"replicas"} \cup UNION {{p[1], p[2]} : p \in LabelPair}

Replacement(f, old, new) == [field |-> f, current |-> old, desired |-> new]

-----------------------------------------------------------------------------
(* The patch an action makes of an authority: a set of replacements.       *)

Change(a, f) == {c \in a.changes : c.field = f}

\* Exactly one recorded change that ended at the current value.
image_replacements(a) ==
    LET m == {c \in Change(a, "image") : c.new = a.desired["image"] /\ c.old \notin {0, c.new}}
    IN  IF Cardinality(m) = 1
        THEN {Replacement("image", c.new, c.old) : c \in m} ELSE {}

previous_replicas_from_changes(a, n) ==
    LET m == {c \in Change(a, "replicas") : c.new = n /\ c.old > n}
    IN  IF Cardinality(m) = 1 THEN {c.old : c \in m} ELSE {}

replica_replacements(a) ==
    LET n == a.desired["replicas"]
        previous == previous_replicas_from_changes(a, n)
        wanted == IF previous # {} THEN previous
                  ELSE IF scenario.strategy = "last_approved_snapshot" /\ ~scenario.bounded
                       THEN {} ELSE {n + 1}
    IN  {Replacement("replicas", n, w) : w \in {x \in wanted : n \in 1..9 /\ x # n /\ x \in 1..9}}

Ceil(x, num, den) == (x * num + den - 1) \div den
Larger(x, y) == IF x > y THEN x ELSE y
Smaller(x, y) == IF x < y THEN x ELSE y

oom_memory_replacements(a) ==
    LET requested == a.desired["request"]
        limit == a.desired["limit"]
        usage == scenario.usage
        newLimit == Larger(Ceil(limit, 5, 4), Ceil(usage, 5, 4))
        newRequest == Smaller(Larger(Ceil(requested, 5, 4), Ceil(usage, 4, 5)), newLimit)
    IN  IF 0 \in {requested, limit, usage} \/ newLimit > MEMORY_CAP THEN {}
        ELSE {r \in {Replacement("request", requested, newRequest),
                     Replacement("limit", limit, newLimit)} : r.desired > r.current}

\* One approved probe setting to go back to, else two more seconds for the
\* first probe that has a timeout.
probe_replacements(a) ==
    LET back == {f \in {"ready_path", "ready_timeout", "live_timeout"} :
                    Cardinality({c \in Change(a, f) : c.new = a.desired[f] /\ c.old # c.new /\
                                                      c.old # 0 /\ c.new # 0}) = 1}
        slow == SelectSeq(<<"ready_timeout", "live_timeout">>, LAMBDA f : a.desired[f] \in 1..29)
    IN  IF Cardinality(back) = 1
        THEN {Replacement(c.field, c.new, c.old) :
                c \in UNION {{c \in Change(a, f) : c.new = a.desired[f] /\ c.old # c.new} : f \in back}}
        ELSE {Replacement(f, a.desired[f], Smaller(a.desired[f] + 2, 30)) :
                f \in {slow[i] : i \in 1..Smaller(Len(slow), 1)}}

selector_replacements(a) ==
    LET m == {p \in LabelPair : 0 \notin {a.desired[p[1]], a.desired[p[2]]} /\
                                a.desired[p[1]] # a.desired[p[2]]}
    IN  IF Cardinality(m) = 1
        THEN {Replacement(p[1], a.desired[p[1]], a.desired[p[2]]) : p \in m} ELSE {}

scalar_replacements_for(a) ==
    CASE scenario.action \in {"image_rollback", "image_tag_fix"} -> image_replacements(a)
      [] scenario.action = "replica_scale" -> replica_replacements(a)
      [] scenario.action = "oom_memory" -> oom_memory_replacements(a)
      [] scenario.action = "probe_fix" -> probe_replacements(a)
      [] scenario.action = "selector_fix" -> selector_replacements(a)
      [] OTHER -> {}

memory_increases_within_cap(r) == 0 < r.current /\ r.current < r.desired /\ r.desired <= MEMORY_CAP

\* The policy of the patch document, checked apart from what made the patch.
action_allows_replacement(r) ==
    CASE scenario.action \in {"image_rollback", "image_tag_fix"} -> r.field = "image"
      [] scenario.action = "replica_scale" ->
            r.field = "replicas" /\ 1 <= r.current /\ r.current < r.desired /\ r.desired <= 10
      [] scenario.action = "oom_memory" ->
            r.field \in {"request", "limit"} /\ memory_increases_within_cap(r)
      [] scenario.action = "probe_fix" ->
            IF r.field = "ready_path" THEN r.desired > 0
            ELSE 1 <= r.current /\ r.current < r.desired /\ r.desired <= 30
      [] OTHER -> r.field \in {p[1] : p \in LabelPair} \cup {p[2] : p \in LabelPair}

validate_scalar_patch_plan(plan) ==
    /\ Cardinality(plan) \in 1..4
    /\ \A r, q \in plan : r.field = q.field => r = q
    /\ \A r \in plan : r.current # r.desired /\ action_allows_replacement(r)

\* The rollback the document carries is the exact inverse.
rollback_replacements(plan) == {Replacement(r.field, r.desired, r.current) : r \in plan}

\* A plan the policy refuses is an error, and no patch at all.
authority_safe_pr_patches(a) ==
    LET plan == scalar_replacements_for(a)
    IN  IF validate_scalar_patch_plan(plan) THEN plan ELSE {}

REVIEW_DOC_ACTIONS == {"gitops_recovery_review", "config_fix"}

build_safe_pr_request_body(a, plan) ==
    [commit |-> a.commit, path |-> a.path, branch |-> a.branch, plan |-> plan]

\* The request for an authority, a set of at most one: none asks a person.
dispatch_safe_pr_body(found) ==
    IF scenario.action \in REVIEW_DOC_ACTIONS
    THEN {build_safe_pr_request_body(a, {}) : a \in found}
    ELSE {build_safe_pr_request_body(a, authority_safe_pr_patches(a)) :
            a \in {b \in found : authority_safe_pr_patches(b) # {}}}

-----------------------------------------------------------------------------
(* Where the patch is written: the one file a Kustomize graph renders the  *)
(* object from, unless an overlay owns the field.                          *)

\* What kustomize build makes of a raw manifest.
Render(raw) ==
    [f \in ScalarField |->
        IF \E o \in scenario.overlays : o.hits /\ f \in DOMAIN o.set
        THEN (CHOOSE o \in scenario.overlays : o.hits /\ f \in DOMAIN o.set).set[f]
        ELSE raw[f]]

\* Only a plain literal that differs proves that another object is meant.
target_may_select(o) == o.target # "other"

\* Paths into a container name it in brackets, which neither a JSON pointer
\* nor a replacement's fieldPaths ever contain.
json_pointer_overlaps_field(o, fields) == (DOMAIN o.set \cap fields) \ ContainerField # {}

patch_content_owns_field(o, fields) ==
    CASE o.body = "unreadable" -> TRUE
      [] o.body = "operations" -> json_pointer_overlaps_field(o, fields)
      [] o.body = "other" -> FALSE
      [] o.body = "unnamed" -> o.target = "none" \/ DOMAIN o.set \cap fields # {}
      [] OTHER -> DOMAIN o.set \cap fields # {}

replacements_own_field(o, fields) ==
    target_may_select(o) /\ (o.body = "unreadable" \/ json_pointer_overlaps_field(o, fields))

kustomization_owns_protected_field(o, fields) ==
    CASE o.kind = "transformers" -> TRUE
      [] o.kind = "replicas" -> "replicas" \in fields /\ o.target \in {"selected", "unreadable"}
      [] o.kind = "patches" -> target_may_select(o) /\ patch_content_owns_field(o, fields)
      [] o.kind = "patchesStrategicMerge" -> patch_content_owns_field(o, fields)
      [] o.kind = "replacements" -> replacements_own_field(o, fields)
      [] OTHER -> FALSE

field_ownership(fields) ==
    fields # {} /\ \E o \in scenario.overlays : kustomization_owns_protected_field(o, fields)

\* Files of the graph only; a List holding the object is not editable.
resolve_unique_kustomize_edit_source(fields) ==
    LET matches == {f \in scenario.files : f.reachable /\ f.form # "broken" /\ f.match}
    IN  IF \/ field_ownership(fields)
           \/ \E f \in matches : f.form = "list"
           \/ Cardinality(matches) # 1
        THEN {} ELSE matches

declared_replacement(r) ==
    /\ scenario.action \in {"image_rollback", "image_tag_fix", "replica_scale", "probe_fix"}
    /\ r.field \in scenario.contract.fields

declared_scalar_patch(plan) ==
    IF validate_scalar_patch_plan(plan) /\ \A r \in plan : declared_replacement(r)
    THEN {scenario.contract.file} ELSE {}

\* The repository's own declaration, or without one the Kustomize graph.
resolve_declared_patches(plan) ==
    CASE scenario.contract.state = "declared" -> declared_scalar_patch(plan)
      [] scenario.contract.state = "missing" /\ scenario.source = "kustomize" ->
            {f.id : f \in resolve_unique_kustomize_edit_source({r.field : r \in plan})}
      [] OTHER -> {}

set_object_value(m, plan) ==
    [f \in DOMAIN m |->
        IF \E r \in plan : r.field = f THEN (CHOOSE r \in plan : r.field = f).desired ELSE m[f]]

\* The approved value or the one wanted; any third value is a conflict.
materialize_declared_scalar_patch(raw, plan) ==
    IF \A r \in plan : raw[r.field] \in {r.current, r.desired}
    THEN {set_object_value(raw, plan)} ELSE {}

\* The strict form: the approved digest and the approved values only.
materialize_scalar_replacements(m, digest, plan) ==
    IF m = digest /\ \A r \in plan : m[r.field] = r.current
    THEN {set_object_value(m, plan)} ELSE {}

-----------------------------------------------------------------------------
(* The diff of a deployment against what was approved and what is live,    *)
(* and whether it is the authorised change.                                *)

Groups == {{f} : f \in ScalarField \ {"limit", "request"}} \cup {{"limit", "request"}}

Class(old, now, new) ==
    CASE old = now /\ now # new -> "intended_change"
      [] now = new /\ old # new -> "already_converged"
      [] old = now /\ now = new -> "no_change"
      [] OTHER -> "drift"

Part(m, g) == [f \in g |-> m[f]]

Diff(old, now, new) ==
    {d \in {[fields |-> g, old |-> Part(old, g), before |-> Part(now, g), after |-> Part(new, g),
             class |-> Class(Part(old, g), Part(now, g), Part(new, g))] : g \in Groups} :
        d.class # "no_change"}

\* The part of an object after the approved changes inside it.
projected_parent_value(m, approved) ==
    IF \A r \in approved : m[r.field] = r.current THEN {set_object_value(m, approved)} ELSE {}

\* The authorised fields a change covers, or that it is out of scope.
approved_change_matches_diff(d, approved) ==
    LET scoped == {r \in approved : r.field \in d.fields}
    IN  CASE scoped = {} -> d.class = "already_converged"
          [] d.class = "intended_change" ->
                d.old = d.before /\ d.after \in projected_parent_value(d.before, scoped)
          [] d.class = "already_converged" ->
                d.before = d.after /\ d.before \in projected_parent_value(d.old, scoped)
          [] OTHER -> FALSE

approved_change_contract(approved) ==
    Cardinality(approved) \in 1..4 /\ \A r \in approved : r.current # r.desired

recovery_diff_matches_approved_scope(approved, old, now, new) ==
    LET diff == Diff(old, now, new)
        Covers(r) == \E d \in diff : r.field \in d.fields
    IN  /\ approved_change_contract(approved)
        /\ \A r \in approved : new[r.field] = r.desired
        /\ IF now = new THEN \A d \in diff : d.class = "already_converged"
           ELSE /\ \A d \in diff : approved_change_matches_diff(d, approved)
                /\ \E d \in diff : d.class = "intended_change" /\ \E r \in approved : r.field \in d.fields
                /\ \A r \in approved : Covers(r)

-----------------------------------------------------------------------------
(* load_authority: one action per read.                                    *)

NoIdentity == [source |-> "none", commit |-> 0, path |-> 0, branch |-> 0]
NoLoad == [phase |-> "none", pc |-> "idle", identity |-> NoIdentity, target |-> {}, diff |-> {},
           app |-> {}, binding |-> {}, repo |-> {}]

\* A Pod or ReplicaSet stands for the one Deployment that lists it.
resolve_workload_target ==
    scenario.incident.kind \in {"Pod", "ReplicaSet"} /\ scenario.incident.owners = 1

rca_target_lineage_is_consistent ==
    IF scenario.incident.declared THEN resolve_workload_target
    ELSE scenario.incident.kind = "Deployment"

\* The identity names a Deployment; a target still a Pod is another object.
identity_matches_query == scenario.incident.kind = "Deployment" \/ resolve_workload_target

identity_from_evidence(e) ==
    [source |-> e.kind, commit |-> e.commit, path |-> shipped[e.commit].path,
     branch |-> IF e.kind = "exact" THEN shipped[e.commit].branch ELSE 0]

enriched_identity(i, branch) == IF i.branch = 0 THEN [i EXCEPT !.branch = branch] ELSE i

Reads(pc, new) == load' = [new EXCEPT !.pc = pc]

WorldUnchanged == UNCHANGED <<scenario, gitLog, shipped, runs, rows, live, edit, merge, edits>>

\* The authority is used: preflight's outcome, preflight's second load for
\* the authorised changes, or the worker's request.
Loaded(found) ==
    LET out == dispatch_safe_pr_body(found)
    IN  /\ load' = IF load.phase = "preflight" /\ out # {}
                   THEN [NoLoad EXCEPT !.phase = "contract", !.pc = "evidence"] ELSE NoLoad
        /\ CASE load.phase = "contract" ->
                    /\ selection' = {[s EXCEPT !.authorised = UNION {scalar_replacements_for(a) : a \in found}] :
                                        s \in selection}
                    /\ stage' = "selected" /\ request' = request
             [] load.phase = "preflight" ->
                    /\ selection' = {[commit |-> r.commit, branch |-> r.branch, authorised |-> {}] : r \in out}
                    /\ stage' = IF out = {} THEN "action_required" ELSE stage
                    /\ request' = request
             [] OTHER ->
                    /\ request' = out
                    /\ stage' = IF out = {} THEN "action_required" ELSE "requested"
                    /\ selection' = selection

Refused == Loaded({})
StillLoading == UNCHANGED <<stage, selection, request>>

\* Exact change evidence alone is trusted when there is any; a damaged
\* identity is not bypassed; only its absence leads to the snapshots.
load_authority ==
    /\ load.pc = "evidence" /\ WorldUnchanged
    /\ LET e == scenario.evidence
       IN  CASE e.kind = "none" -> Reads("targets", load) /\ StillLoading
             [] e.kind = "exact" /\ ~e.complete -> Refused
             [] e.kind = "rca" /\ ~rca_target_lineage_is_consistent -> Refused
             [] ~identity_matches_query -> Refused
             [] OTHER -> Reads("run", [load EXCEPT !.identity = identity_from_evidence(e)]) /\ StillLoading

\* list_active_github_poll_targets, then the snapshot of each target.
ReadTargets ==
    /\ load.pc = "targets" /\ WorldUnchanged
    /\ IF rows.app.active /\ rows.binding.active /\ rows.repo.active
       THEN /\ Reads("snapshot", [load EXCEPT !.target =
                        {[path |-> rows.binding.path, branch |-> rows.repo.branch]}])
            /\ StillLoading
       ELSE Refused

load_approved_snapshot_identity ==
    /\ load.pc = "snapshot" /\ WorldUnchanged
    /\ IF rows.rival \/ ~identity_matches_query THEN Refused
       ELSE /\ \E t \in load.target :
                  Reads("run", [load EXCEPT !.identity =
                            [source |-> "approved_snapshot", commit |-> Len(shipped),
                             path |-> t.path, branch |-> t.branch]])
            /\ StillLoading

\* Runs are history that may be gone; only a snapshot does without one.
get_workflow_run ==
    /\ load.pc = "run" /\ WorldUnchanged
    /\ IF load.identity.commit \in runs \/ load.identity.source = "approved_snapshot"
       THEN Reads("diff", load) /\ StillLoading
       ELSE Refused

get_completed_workload_resource_diff ==
    /\ load.pc = "diff" /\ WorldUnchanged
    /\ Reads("application", [load EXCEPT !.diff =
            IF shipped[load.identity.commit].changes = {} THEN {}
            ELSE {shipped[load.identity.commit].changes}])
    /\ StillLoading

get_application ==
    /\ load.pc = "application" /\ WorldUnchanged
    /\ Reads("binding", [load EXCEPT !.app = {rows.app},
                                     !.identity = enriched_identity(@, rows.app.branch)])
    /\ StillLoading

get_deployment_binding ==
    /\ load.pc = "binding" /\ WorldUnchanged
    /\ Reads("repository", [load EXCEPT !.binding = {rows.binding}])
    /\ StillLoading

get_repository_by_ref ==
    /\ load.pc = "repository" /\ WorldUnchanged
    /\ IF load.diff = {} /\ load.identity.source # "approved_snapshot" THEN Refused
       ELSE /\ Reads("provenance", [load EXCEPT !.repo = {rows.repo}])
            /\ StillLoading

\* A bug for authority_rows_match: the rows agree, so the deployment's own
\* record of its source is not compared.
rows_agree(l) ==
    /\ \A a \in l.app : a.active /\ a.branch = l.identity.branch
    /\ \A b \in l.binding : b.active /\ b.path = l.identity.path
    /\ \A r \in l.repo : r.active /\ r.branch = l.identity.branch

authority_rows_match(l) ==
    LET d == shipped[l.identity.commit]
    IN  /\ \A a \in l.app : a.active /\ a.branch = l.identity.branch
        /\ \A b \in l.binding : b.active /\ b.path = l.identity.path
        /\ \A r \in l.repo : r.active /\ r.branch = l.identity.branch
        /\ d.path = l.identity.path /\ d.branch = l.identity.branch

Authority(l, changes) ==
    IF authority_rows_match(l)
    THEN {[commit |-> l.identity.commit, path |-> l.identity.path, branch |-> l.identity.branch,
           desired |-> Render(gitLog[l.identity.commit]), changes |-> changes]}
    ELSE {}

get_manifest_artifact_provenance ==
    /\ load.pc = "provenance" /\ WorldUnchanged
    /\ IF shipped[load.identity.commit].path # load.identity.path THEN Refused
       ELSE IF load.diff = {} THEN Reads("history", load) /\ StillLoading
       ELSE Loaded(Authority(load, UNION load.diff))

\* The newest replicas change of the same source, when it led to now.
load_recent_replica_changes ==
    /\ load.pc = "history" /\ WorldUnchanged
    /\ LET n == Render(gitLog[load.identity.commit])["replicas"]
           Replicas(k) == {c \in shipped[k].changes : c.field = "replicas"}
           k == SelectLastInSeq(shipped, LAMBDA d : d.path = load.identity.path /\
                                                    \E c \in d.changes : c.field = "replicas")
       IN  Loaded(Authority(load, IF k = 0 THEN {} ELSE {c \in Replicas(k) : c.new = n /\ c.old # n}))

-----------------------------------------------------------------------------
(* The worker, the pull request, its merge and its deployment.             *)

\* The worker receives the selected action and loads the authority again.
dispatch_body ==
    /\ stage = "selected" /\ load.pc = "idle"
    /\ load' = [NoLoad EXCEPT !.phase = "worker", !.pc = "evidence"]
    /\ stage' = "dispatching"
    /\ UNCHANGED <<selection, request>> /\ WorldUnchanged

\* The SCM worker writes the pull request on the branch's newest commit.
materialize_patch_contents ==
    /\ stage = "requested"
    /\ \E r \in request :
          LET raw == Last(gitLog)
              written == IF r.plan = {} THEN {raw}
                         ELSE IF resolve_declared_patches(r.plan) = {} THEN {}
                         ELSE materialize_declared_scalar_patch(raw, r.plan)
          IN  /\ edit' = {[base |-> raw, raw |-> w] : w \in written}
              /\ stage' = IF written = {} THEN "failed" ELSE "created"
    /\ UNCHANGED <<scenario, gitLog, shipped, runs, rows, live, load, selection, request, merge, edits>>

\* Another commit than the one preflight stored reopens the plan.
safe_pr_identity_error(r, s) == r.commit # s.commit \/ r.branch # s.branch

on_recovery_safe_pr_created ==
    /\ stage = "created"
    /\ \E r \in request, s \in selection :
          stage' = IF safe_pr_identity_error(r, s) THEN "reopened" ELSE "pr_open"
    /\ UNCHANGED <<scenario, gitLog, shipped, runs, rows, live, load, selection, request,
                   edit, merge, edits>>

Conflicting(e, head) ==
    \E f \in ScalarField : e.raw[f] # e.base[f] /\ head[f] \notin {e.base[f], e.raw[f]}

\* A person merges; git takes the pull request's edit over the newest commit.
MergePull ==
    /\ stage = "pr_open"
    /\ \E e \in edit :
          /\ ~Conflicting(e, Last(gitLog))
          /\ gitLog' = Append(gitLog, [f \in ScalarField |->
                                IF e.raw[f] # e.base[f] THEN e.raw[f] ELSE Last(gitLog)[f]])
    /\ merge' = [commit |-> Len(gitLog) + 1, granted |-> FALSE, old |-> Last(gitLog), new |-> Last(gitLog)]
    /\ stage' = "deploy_pending"
    /\ UNCHANGED <<scenario, shipped, runs, rows, live, load, selection, request, edit, edits>>

\* exact_merged_recovery_request: the stored request, when the diff is it.
recovery_merge_authorization(k, now, new) ==
    /\ k = merge.commit /\ stage = "deploy_pending"
    /\ \E s \in selection : recovery_diff_matches_approved_scope(s.authorised, Render(gitLog[k - 1]), now, new)

\* The next commit is diffed and applied, by authorisation or after review.
DeployNext ==
    LET k == Len(shipped) + 1
        old == Render(gitLog[k - 1])
        new == Render(gitLog[k])
    IN  /\ k <= Len(gitLog)
        /\ shipped' = Append(shipped, [path |-> rows.binding.path, branch |-> rows.repo.branch,
                changes |-> {[field |-> f, old |-> old[f], new |-> new[f]] :
                                f \in {g \in ScalarField : old[g] # new[g]}}])
        /\ runs' = runs \cup {k}
        /\ live' = new
        /\ IF k = merge.commit
           THEN /\ merge' = [merge EXCEPT !.granted = recovery_merge_authorization(k, live, new),
                                          !.old = live, !.new = new]
                /\ stage' = "deployed"
           ELSE UNCHANGED <<merge, stage>>
        /\ UNCHANGED <<scenario, gitLog, rows, load, selection, request, edit, edits>>

\* People push, retention drops a run, an administrator edits a row, a
\* second binding claims the workload, someone edits the live object.
Push ==
    /\ Len(gitLog) < Len(scenario.history) /\ merge.commit = 0
    /\ gitLog' = Append(gitLog, scenario.history[Len(gitLog) + 1])
    /\ UNCHANGED <<scenario, shipped, runs, rows, live, stage, load, selection, request,
                   edit, merge, edits>>

Edit == edits < MaxEdits /\ edits' = edits + 1

RetireRun ==
    /\ Edit /\ \E k \in runs : runs' = runs \ {k}
    /\ UNCHANGED <<scenario, gitLog, shipped, rows, live, stage, load, selection, request, edit, merge>>

EditRows ==
    /\ Edit
    /\ rows' \in {[rows EXCEPT !.app.active = FALSE], [rows EXCEPT !.binding.active = FALSE],
                  [rows EXCEPT !.repo.active = FALSE], [rows EXCEPT !.binding.path = 2],
                  [rows EXCEPT !.app.branch = 2, !.repo.branch = 2], [rows EXCEPT !.rival = TRUE]}
    /\ UNCHANGED <<scenario, gitLog, shipped, runs, live, stage, load, selection, request, edit, merge>>

EditLive ==
    /\ Edit /\ \E f \in scenario.touched, v \in {1, 2} : live' = [live EXCEPT ![f] = v]
    /\ UNCHANGED <<scenario, gitLog, shipped, runs, rows, stage, load, selection, request, edit, merge>>

DispatchInit ==
    /\ scenario \in Scenario
    /\ gitLog = SubSeq(scenario.history, 1, scenario.deployed)
    /\ shipped = [k \in 1..scenario.deployed |->
          [path |-> 1, branch |-> 1,
           changes |-> IF k = 1 THEN {} ELSE
              {[field |-> f, old |-> Render(gitLog[k - 1])[f], new |-> Render(gitLog[k])[f]] :
                 f \in {g \in ScalarField : Render(gitLog[k - 1])[g] # Render(gitLog[k])[g]}}]]
    /\ runs = 1..scenario.deployed
    /\ rows = [app |-> [active |-> TRUE, branch |-> 1], binding |-> [active |-> TRUE, path |-> 1],
               repo |-> [active |-> TRUE, branch |-> 1], rival |-> FALSE]
    /\ live = Render(gitLog[scenario.deployed])
    /\ stage = "selecting" /\ load = [NoLoad EXCEPT !.phase = "preflight", !.pc = "evidence"]
    /\ selection = {} /\ request = {} /\ edit = {}
    /\ merge = [commit |-> 0, granted |-> FALSE, old |-> live, new |-> live]
    /\ edits = 0

DispatchNext ==
    \/ load_authority \/ ReadTargets \/ load_approved_snapshot_identity \/ get_workflow_run
    \/ get_completed_workload_resource_diff \/ get_application \/ get_deployment_binding
    \/ get_repository_by_ref \/ get_manifest_artifact_provenance \/ load_recent_replica_changes
    \/ dispatch_body \/ materialize_patch_contents \/ on_recovery_safe_pr_created \/ MergePull
    \/ DeployNext \/ Push \/ RetireRun \/ EditRows \/ EditLive

DispatchSpec == DispatchInit /\ [][DispatchNext]_dispatchVars

-----------------------------------------------------------------------------
Tracked == stage \in {"pr_open", "deploy_pending", "deployed"}

(* A pull request the recovery tracks changes exactly what was authorised  *)
(* when the action was chosen, although the change was computed again from *)
(* an authority loaded at another time, and although the stored parameters *)
(* mix two loads: every replacement starts from the value rendered at the  *)
(* request's own commit, stays inside the patch policy, and the rollback   *)
(* the request carries gives that manifest back.                           *)
TrackedAsAuthorised ==
    Tracked => \A r \in request, s \in selection :
        /\ r.plan = s.authorised
        /\ \A x \in r.plan : action_allows_replacement(x)
        /\ \A m \in {Render(gitLog[r.commit])} :
              \E p \in materialize_scalar_replacements(m, m, r.plan) :
                  materialize_scalar_replacements(p, p, rollback_replacements(r.plan)) = {m}

(* A patch written through the Kustomize graph takes effect: rendering the *)
(* edited file gives every field the value that was approved, so no overlay*)
(* silently keeps the old one.  Left out are the two kinds of overlay the  *)
(* resolver does not recognise: operations and replacements on a container *)
(* field, and common labels.                                               *)
Unrecognised(f) ==
    \E o \in scenario.overlays :
        /\ o.hits /\ f \in DOMAIN o.set
        /\ o.kind = "commonLabels" \/ (f \in ContainerField /\ (o.body = "operations" \/ o.kind = "replacements"))

EditReachesRender ==
    (stage = "created" /\ scenario.contract.state = "missing") =>
        \A r \in request, e \in edit, x \in UNION {q.plan : q \in request} :
            Unrecognised(x.field) \/ Render(e.raw)[x.field] = x.desired

(* A deployment let through by the merge alone changes the cluster in the  *)
(* authorised fields only, from the authorised value to the authorised     *)
(* value, whatever was pushed, deployed or edited by hand in the meantime. *)
GrantIsExact ==
    merge.granted =>
        \A f \in ScalarField : merge.old[f] # merge.new[f] =>
            \E s \in selection : Replacement(f, merge.old[f], merge.new[f]) \in s.authorised

(* What the preflight stores and what the worker asks for name a deployment*)
(* that really shipped from that branch and that path, although the parts  *)
(* of the authority were read one by one while rows were edited.           *)
AuthorityIsOneDeployment ==
    /\ \A s \in selection : s.commit \in DOMAIN shipped /\ shipped[s.commit].branch = s.branch
    /\ \A r \in request : /\ r.commit \in DOMAIN shipped
                          /\ shipped[r.commit].branch = r.branch
                          /\ shipped[r.commit].path = r.path

(* The authority granted when the action was chosen is that of one real    *)
(* deployment, and it bounds all that follows: the pull request, what it   *)
(* renders to, and its deployment.                                         *)
DispatchIsAuthorised ==
    AuthorityIsOneDeployment /\ TrackedAsAuthorised /\ EditReachesRender /\ GrantIsExact
=============================================================================
