----------------------------- MODULE MCPlatform -----------------------------
(***************************************************************************)
(* Instances for TLC of the components around a change: the process and    *)
(* its in-memory bus, the agents' jobs, sessions, access, repositories,    *)
(* the GitOps workflow, the dispatch of a recovery and its pull request,   *)
(* the data catalog.                                                       *)
(* They meet only through rows and events that each module takes as its    *)
(* inputs, so one of them moves at a time: component says which, and the   *)
(* others keep an initial state.                                           *)
(***************************************************************************)
EXTENDS ControllerProcess, EvidenceJobs, SessionStore, AccessControl, RepositoryConnection,
        RepositoryDiscovery, GitOpsWorkflow, RecoveryDispatch, DraftPullRequest,
        CatalogPipeline, TLC

CONSTANTS p1, p2

VARIABLE component

-----------------------------------------------------------------------------
(* EvidenceJobs: the first provider may try twice. *)
MCMaxAttempts == (p1 :> 2) @@ (p2 :> 1)
MCOutcome == {[raises |-> FALSE, queries |-> 2, answered |-> 1, found |-> TRUE],
              [raises |-> TRUE, queries |-> 0, answered |-> 0, found |-> FALSE]}

(* AccessControl, GitOpsWorkflow, DraftPullRequest *)
MCGlobalPolicy == [r \in Role |-> IF r = Steward THEN Permission ELSE {"read"}]
MCScopedPolicy == {<<"o1", "observer", "write", TRUE>>, <<"o1", "observer", "read", FALSE>>}

MCItem == {<<1, 1>>, <<2, 1>>}

MCAuthority ==
    {[run |-> TRUE, provenance |-> TRUE, target |-> "none", approval |-> "granted", diff |-> TRUE],
     [run |-> TRUE, provenance |-> TRUE, target |-> "policy_approval", approval |-> "rejected",
      diff |-> TRUE]}

-----------------------------------------------------------------------------
(* RepositoryDiscovery: two commits of one branch. *)
Body(size, documents, references) ==
    [utf8 |-> TRUE, parses |-> TRUE, bytes |-> size, docs |-> documents, refs |-> references]
Binary == [utf8 |-> FALSE, parses |-> FALSE, bytes |-> 1, docs |-> <<>>, refs |-> <<>>]
Blob(p, b) == [path |-> p, body |-> b]
Reference(isDir, p) == [form |-> "local", dir |-> isDir, path |-> p]
Remote == [form |-> "remote", dir |-> TRUE, path |-> <<"x">>]
Malformed == [form |-> "malformed", dir |-> TRUE, path |-> <<"x">>]
Kustomize == "kustomization.yaml"
MCTrees ==
    <<<<Blob(<<"a", "app.yaml">>, Body(1, <<"named">>, <<>>)),
        Blob(<<"a", Kustomize>>, Body(1, <<"config">>, <<Reference(TRUE, <<"..", "b">>),
                                                         Reference(TRUE, <<"app.yaml">>)>>)),
        Blob(<<"b", Kustomize>>, Body(1, <<"bare">>, <<Reference(TRUE, <<"..", "a">>),
                                                       Reference(FALSE, <<".", "svc.yaml">>)>>)),
        Blob(<<"b", "svc.yaml">>, Body(1, <<"named", "scalar">>, <<>>)),
        Blob(<<"c", "Chart.yaml">>, Body(1, <<"nameless">>, <<>>)),
        Blob(<<"c", "t.yaml">>, Body(2, <<"named">>, <<>>)),
        Blob(<<"f", Kustomize>>, Body(1, <<"named">>, <<>>)),
        Blob(<<"v.yaml">>, Body(1, <<"nameless">>, <<>>))>>,
      <<Blob(<<"Kustomization">>, Body(1, <<"named", "named">>, <<>>)),
        Blob(<<"a", "app.yaml">>, Body(2, <<"named">>, <<>>)),
        Blob(<<"a", Kustomize>>, Body(1, <<"config">>, <<Reference(TRUE, <<"app.yaml">>),
                                                         Reference(TRUE, <<"..", "..">>)>>)),
        Blob(<<"b", Kustomize>>, Body(1, <<"config">>, <<Reference(TRUE, <<"..", "d">>)>>)),
        Blob(<<"b", "x.json">>, Binary),
        Blob(<<"c", "Chart.yaml">>, Body(1, <<"nameless">>, <<>>)),
        Blob(<<"c", "t.yaml">>, Body(1, <<"named">>, <<>>)),
        Blob(<<"d", Kustomize>>, Body(1, <<"config">>, <<Remote>>)),
        Blob(<<"e", Kustomize>>, Body(1, <<"config">>, <<Malformed>>)),
        Blob(<<"f", Kustomize>>, Body(1, <<"config">>, <<>>))>>>>
Wanted(p, s, v) == [path |-> p, source |-> s, values |-> v]
Operation(k, wanted, expected) == [kind |-> k, requests |-> wanted, expected |-> expected]
MCAsked ==
    {Operation(k, <<>>, 0) : k \in {"probe", "branches", "candidates", "files"}}
    \cup {Operation("validate", <<w>>, 0) :
            w \in {Wanted(<<"b">>, "", {}), Wanted(<<"b", "x.json">>, "", {}),
                   Wanted(<<"a", "app.yaml">>, "", {<<"v.yaml">>}),
                   Wanted(<<"e", Kustomize>>, "", {})}}
    \cup {Operation("preview", <<Wanted(<<"c">>, "helm", {})>>, 0),
          Operation("batch", <<Wanted(<<"a">>, "kustomize", {}),
                               Wanted(<<"b", "svc.yaml">>, "raw-yaml", {})>>, 1),
          Operation("batch", <<Wanted(<<"c">>, "helm", {<<"v.yaml">>}),
                               Wanted(<<"c", "Chart.yaml">>, "raw-yaml", {})>>, 1),
          Operation("batch", <<Wanted(<<"c">>, "helm", {}),
                               Wanted(<<"a", "app.yaml">>, "", {})>>, 2)}
MCFaults == {<<403, TRUE>>}

-----------------------------------------------------------------------------
(* RecoveryDispatch: the histories of each action, then the layouts. *)
Raw(given) ==
    given @@ ("replicas" :> 3) @@ ("image" :> 1) @@ ("limit" :> 512) @@ ("request" :> 256)
    @@ ("ready_timeout" :> 1) @@ ("live_timeout" :> 0) @@ ("ready_path" :> 1)
    @@ ("selector_a" :> 1) @@ ("label_a" :> 1) @@ ("selector_b" :> 1) @@ ("label_b" :> 1)
Plain == "replicas" :> 3
Scaled(n) == "replicas" :> n
File(i, form, matches) == [id |-> i, reachable |-> TRUE, form |-> form, match |-> matches]
NoContract == [state |-> "missing", fields |-> {}, file |-> 0]
Overlay(k, t, patch, hits, set) ==
    [kind |-> k, target |-> t, body |-> patch, hits |-> hits, set |-> set]
Evidence(k, c) == [kind |-> k, commit |-> c, complete |-> TRUE]
Incident(k, owners, declared) == [kind |-> k, owners |-> owners, declared |-> declared]
Recovery(action, commits, n, evidence) ==
    [action |-> action, strategy |-> "last_approved_snapshot", bounded |-> TRUE,
     evidence |-> evidence, incident |-> Incident("Deployment", 0, FALSE), usage |-> 600,
     history |-> [i \in DOMAIN commits |-> Raw(commits[i])], deployed |-> n,
     source |-> "kustomize", contract |-> NoContract,
     files |-> {File(1, "document", TRUE), File(2, "document", FALSE)},
     overlays |-> {}, touched |-> {"replicas"}]
ScaleHistory == <<Scaled(5), Plain, Scaled(3) @@ ("image" :> 2), Scaled(4)>>
Histories ==
    {Recovery("replica_scale", ScaleHistory, 2, Evidence("rca", 2)),
     Recovery("replica_scale", ScaleHistory, 3, Evidence("none", 1)),
     Recovery("replica_scale", ScaleHistory, 2, Evidence("exact", 1)),
     Recovery("oom_memory", <<Plain, Scaled(4), Scaled(4) @@ ("limit" :> 700)>>, 1,
              Evidence("none", 1)),
     Recovery("image_rollback", <<Plain, "image" :> 2, ("image" :> 2) @@ Scaled(4)>>, 2,
              Evidence("rca", 2)),
     Recovery("probe_fix", <<Plain, "ready_timeout" :> 2, Scaled(4) @@ ("ready_timeout" :> 2)>>,
              1, Evidence("none", 1)),
     Recovery("probe_fix", <<"ready_path" :> 2, Plain, Scaled(4)>>, 2, Evidence("exact", 2)),
     Recovery("selector_fix", <<"label_a" :> 2, ("label_a" :> 2) @@ Scaled(4)>>, 1,
              Evidence("none", 1)),
     Recovery("config_fix", <<Plain, Scaled(4)>>, 1, Evidence("none", 1))}
Overlays ==
    {Overlay("replicas", "selected", "none", TRUE, Scaled(3)),
     Overlay("replicas", "other", "none", FALSE, Scaled(3)),
     Overlay("patches", "pattern", "operations", TRUE, Scaled(3)),
     Overlay("patches", "other", "operations", FALSE, Scaled(3)),
     Overlay("patches", "none", "unnamed", TRUE, "image" :> 2),
     Overlay("patches", "selected", "unnamed", TRUE, "image" :> 2),
     Overlay("patchesStrategicMerge", "none", "named", TRUE, "limit" :> 512),
     Overlay("patchesStrategicMerge", "none", "other", FALSE, Scaled(3)),
     Overlay("replacements", "selected", "none", TRUE, Scaled(3)),
     Overlay("transformers", "none", "none", TRUE, Scaled(3)),
     Overlay("patches", "none", "unreadable", TRUE, Scaled(3))}
Layouts(s) ==
    {[s EXCEPT !.overlays = {o}] : o \in Overlays}
    \cup {[s EXCEPT !.files = f] :
            f \in {{File(1, "document", TRUE), File(2, "document", TRUE)},
                   {File(1, "list", TRUE)}, {File(1, "broken", TRUE)}}}
    \cup {[s EXCEPT !.contract = c] :
            c \in {[state |-> "declared", fields |-> {"replicas"}, file |-> 1],
                   [state |-> "malformed", fields |-> {}, file |-> 0]}}
    \cup {[s EXCEPT !.incident = i] : i \in {Incident("Pod", 1, TRUE), Incident("Pod", 2, FALSE)}}
    \cup {[s EXCEPT !.source = "raw-yaml"]}
MCScenario ==
    Histories \cup Layouts(Recovery("replica_scale", <<Plain>>, 1, Evidence("none", 1)))
              \cup Layouts(Recovery("oom_memory", <<Plain>>, 1, Evidence("none", 1)))

-----------------------------------------------------------------------------
Component == {"process", "jobs", "store", "access", "connection", "discovery", "workflow", "dispatch",
              "pull", "catalog"}

Still(c, vars) == IF component = c THEN TRUE ELSE UNCHANGED vars

PlatformInit ==
    /\ component \in Component
    /\ IF component = "connection" THEN TRUE ELSE repository = [r \in Repo |-> {}]
    /\ IF component = "dispatch" THEN TRUE
       ELSE scenario = CHOOSE s \in Scenario : s.action = "config_fix"
    /\ IF component = "pull" THEN TRUE
       ELSE kind = "plain" /\ authority = CHOOSE a \in AuthorityRecord : TRUE
    /\ IF component = "catalog" THEN TRUE ELSE past = FALSE
    /\ ProcessInit /\ JobsInit /\ StoreInit /\ AccessInit /\ ConnectionInit /\ DiscoveryInit /\ WorkflowInit
    /\ DispatchInit /\ PrInit /\ CatalogInit

PlatformNext ==
    /\ component' = component
    /\ Still("process", processVars) /\ Still("jobs", jobsVars) /\ Still("store", storeVars)
    /\ Still("access", accessVars)
    /\ Still("connection", connectionVars) /\ Still("discovery", discoveryVars)
    /\ Still("workflow", workflowVars) /\ Still("dispatch", dispatchVars)
    /\ Still("pull", prVars) /\ Still("catalog", catalogVars)
    /\ \/ component = "process" /\ ProcessNext
       \/ component = "jobs" /\ JobsNext
       \/ component = "store" /\ StoreNext
       \/ component = "access" /\ AccessNext
       \/ component = "connection" /\ ConnectionNext
       \/ component = "discovery" /\ DiscoveryNext
       \/ component = "workflow" /\ WorkflowNext
       \/ component = "dispatch" /\ DispatchNext
       \/ component = "pull" /\ PrNext
       \/ component = "catalog" /\ CatalogNext

PlatformSpec == PlatformInit /\ [][PlatformNext]_<<component, processVars, jobsVars, storeVars,
    accessVars, connectionVars, discoveryVars, workflowVars, dispatchVars, prVars, catalogVars>>
=============================================================================
