----------------------------- MODULE MCEvidence -----------------------------
(***************************************************************************)
(* Instances for TLC of the components on the way of evidence: collection, *)
(* alerts, analysis, inventory, history, timeline and verification.        *)
(* They meet only through rows and events that each module takes as its    *)
(* inputs, so one of them moves at a time: component says which, and the   *)
(* others keep an initial state.                                           *)
(***************************************************************************)
EXTENDS KubernetesCollect, AlertIntake, RcaPipeline, InventoryLedger, IncidentHistory,
        TimelineLedger, VerificationWindow, TLC

VARIABLE component

-----------------------------------------------------------------------------
(* KubernetesCollect *)
QueryPolicy(kind, scopes, selector) == [kind |-> kind, scopes |-> scopes, selector |-> selector]

MCPolicies ==
    {<<QueryPolicy("namespace", <<"ns">>, FALSE), QueryPolicy("namespace", <<"ns">>, TRUE),
       QueryPolicy("dynamic", <<"ns", "kube">>, FALSE)>>,
     <<QueryPolicy("events", <<"ns">>, FALSE), QueryPolicy("events", <<"ns">>, FALSE)>>,
     <<QueryPolicy("access", <<"ns", "kube">>, FALSE),
       QueryPolicy("discovery", <<"ns", "kube">>, FALSE)>>}
MCMaxPages == [dynamic |-> 3, events |-> 2, access |-> 2]
MCMaxItems == [dynamic |-> 3, events |-> 2, access |-> 2, discovery |-> 3]
MCListLimit == [namespace |-> 2, dynamic |-> 2]

(* VerificationWindow *)
Sample(series, value) == [series |-> series, value |-> value]
Rollout(generation, seen, ready, missing) ==
    [generation |-> generation, observed |-> seen, desired |-> 2, ready |-> ready,
     updated |-> 2, available |-> ready, unavailable |-> missing]
MCBefore ==
    [series |-> "sli", replicas |-> 2, ratioMax |-> 1, rate |-> 10, tolerance |-> 20,
     maxAge |-> 1, sessionsAt |-> 0, peers |-> [peer |-> [pods |-> {"p"}, restarts |-> 0]],
     sessions |-> [name |-> "peer", pod |-> "p"] :> 2]
Healthy ==
    [ratio |-> {Sample("sli", 0), Sample("old", 5)}, rate |-> {Sample("sli", 9)},
     target |-> {Rollout(2, 2, 2, None)},
     peers |-> [peer |-> [pods |-> {"p"}, restarts |-> 0, desired |-> 1, ready |-> 1]],
     sessions |-> {[name |-> "peer", pod |-> "p", value |-> 3, age |-> 0]}]
MCShown ==
    [good |-> Healthy,
     ambiguous |-> [Healthy EXCEPT !.ratio = {Sample("sli", 0), Sample("sli", 1)}],
     rollout |-> [Healthy EXCEPT !.target = {Rollout(2, 1, 1, 1)}],
     restarted |-> [Healthy EXCEPT !.peers.peer.restarts = 1],
     dropped |-> [Healthy EXCEPT !.sessions =
                     {[name |-> "peer", pod |-> "p", value |-> 1, age |-> 0]}]]
MCContent == DOMAIN MCShown

-----------------------------------------------------------------------------
(* InventoryLedger: whole cuts, proved and unproved partial ones, captures. *)
NoCapture == [present |-> FALSE, authoritative |-> FALSE, fresh |-> FALSE, count |-> 0]
EventCapture(fresh, n) == [present |-> TRUE, authoritative |-> TRUE, fresh |-> fresh, count |-> n]
Body(hashed, raw) == [hashed |-> hashed, raw |-> raw]
Cut(t, found, proof, limit, whole, events_) ==
    [at |-> t, seen |-> found, coverage |-> proof, limits |-> limit, replace |-> whole,
     capture |-> events_]
MCPodOf == 1 :> "ns"
MCPayload ==
    {Cut(1, (1 :> Body(1, 1)) @@ (2 :> Body(1, 1)), << >>, "none", TRUE, NoCapture),
     Cut(1, (1 :> Body(1, 2)), "ns" :> "proved", "other", FALSE, EventCapture(TRUE, 1)),
     Cut(2, (2 :> Body(2, 1)), "ns" :> "proved", "none", FALSE, NoCapture),
     Cut(2, (2 :> Body(2, 1)), "ns" :> "proved", "pods", FALSE, EventCapture(TRUE, 1)),
     Cut(2, << >>, "ns" :> "selector", "none", FALSE, EventCapture(FALSE, 2)),
     Cut(2, (1 :> Body(2, 1)) @@ (3 :> Body(1, 1)), << >>, "none", TRUE, NoCapture)}

(* TimelineLedger: what is appended, read and pinned in each workspace. *)
PodEvent == inventory_timeline_event("k1", "c1", "Pod", {"ns"}, "u1", 0)
JobEvent == inventory_timeline_event("k2", "c1", "Job", {"ns"}, "", 1)
LateEvent == inventory_timeline_event("k5", "c1", "Pod", {}, "u2", 2)
IncidentEvent ==
    [source_key |-> "k3", source |-> "incident", cluster |-> "c1", activity |-> "warning",
     event_type |-> "incident", occurred_at |-> 0, resource |-> {}, subject |-> NoSubject]
WorkflowEvent ==
    [source_key |-> "k4", source |-> "gitops", cluster |-> "c1", activity |-> "change",
     event_type |-> "gitops_change", occurred_at |-> 1, resource |-> {},
     subject |-> [NoSubject EXCEPT !.kind = "application_workflow", !.application = {"app"}]]
LiveQuery ==
    [scopes |-> {[cluster |-> "c1", namespaces |-> {}]}, from |-> 0, to |-> 2, mode |-> "live",
     activity |-> {}, kinds |-> {}, include_deleted |-> TRUE, pinned_only |-> FALSE,
     search |-> "", sort |-> "recent"]
AllGranted ==
    [inventory |-> {"c1"}, kubernetes_event |-> {}, incident |-> {"c1"},
     application_workflow |-> {}, gitops |-> {"app"}]
EmptyWorkspace ==
    [batches |-> {}, queries |-> {}, access |-> {AllGranted}, subjects |-> {}, tabs |-> {},
     until |-> 0]
MCWorkspaces ==
    {[EmptyWorkspace EXCEPT
        !.batches = {<<PodEvent, JobEvent, PodEvent>>, <<JobEvent, IncidentEvent>>},
        !.queries = {[LiveQuery EXCEPT !.sort = "name"]}],
     [EmptyWorkspace EXCEPT
        !.batches = {<<JobEvent>>, <<IncidentEvent>>},
        !.queries = {[LiveQuery EXCEPT !.mode = "frozen", !.to = 1]},
        !.access = {AllGranted, [AllGranted EXCEPT !.incident = {}]}],
     [EmptyWorkspace EXCEPT
        !.batches = {<<JobEvent>>, <<IncidentEvent>>},
        !.queries = {[LiveQuery EXCEPT !.activity = {"warning"}]},
        !.access = {AllGranted, [AllGranted EXCEPT !.incident = {}]}],
     [EmptyWorkspace EXCEPT
        !.batches = {<<LateEvent>>, <<WorkflowEvent>>},
        !.queries = {LiveQuery, [LiveQuery EXCEPT !.search = "app"]}, !.until = 1],
     [EmptyWorkspace EXCEPT
        !.batches = {<<PodEvent>>}, !.queries = {[LiveQuery EXCEPT !.pinned_only = TRUE]},
        !.subjects = {<<"c1", "u1">>}, !.tabs = {1}],
     [EmptyWorkspace EXCEPT
        !.subjects = {<<"c1", "u1">>, <<"application", "app">>}, !.tabs = {1, 2}]}

-----------------------------------------------------------------------------
(* RcaPipeline *)
PodShown(name, ns, owner, waiting, terminated, phase_, placed, ready, restarts) ==
    [name |-> name, ns |-> ns, owner |-> owner, waiting |-> waiting, terminated |-> terminated,
     phase |-> phase_, placed |-> placed, ready |-> ready, restarts |-> restarts, label |-> "app"]
Crashing == PodShown(1, "a", 9, {"CrashLoopBackOff"}, {"OOMKilled"}, "Running", TRUE, FALSE, 2)
Unplaced == PodShown(2, "b", 0, {}, {}, "Pending", FALSE, TRUE, 0)
Looping == PodShown(3, "b", 0, {"CrashLoopBackOff"}, {}, "Running", TRUE, FALSE, 1)
Restarted == PodShown(1, "a", 9, {}, {"OOMKilled"}, "Running", TRUE, TRUE, 3)
Unready == PodShown(1, "a", 0, {}, {}, "Running", TRUE, FALSE, 0)
EventShown(kind, name, ns, reason, seen) ==
    [kind |-> kind, name |-> name, ns |-> ns, reason |-> reason, seen |-> seen, warning |-> TRUE,
     count |-> 1]
Probes == <<EventShown("Pod", 1, "a", "Unhealthy", 9), EventShown("Pod", 7, "a", "BackOff", 9)>>
Placements == <<EventShown("Node", 5, "", "FailedScheduling", 2),
                EventShown("Pod", 1, "a", "Failed", 10)>>
Line(ns, app, text, at_) == [ns |-> ns, app |-> app, text |-> text, at |-> at_]
Errors == <<Line("management", 4, "5xx", 10), Line("b", 6, "timeout", 10)>>
OldTimeout == <<Line("a", 4, "timeout", 1)>>
NoEndpoint == <<[name |-> 8, ns |-> "b", selector |-> "web", slices |-> {0}]>>
Snapshot(pods, events, services, logs, logStatus) ==
    [symptom |-> "", resource |-> NoResource, at |-> 10, pods |-> pods, events |-> events,
     services |-> services, logs |-> logs, alerts |-> {}, metrics |-> FALSE, traces |-> FALSE,
     metadata |-> {}, status |-> [s \in SOURCES |-> IF s = "logs" THEN logStatus ELSE "complete"]]
MCSnapshots ==
    {Snapshot(pods, events, <<>>, <<>>, "complete") :
        pods \in {<<>>, <<Crashing, Unplaced>>, <<Looping, Restarted>>, <<Unready>>},
        events \in {<<>>, Probes, Placements}}
    \cup {Snapshot(pods, <<>>, services, logs, logStatus) :
        pods \in {<<>>, <<Looping, Restarted>>}, services \in {<<>>, NoEndpoint},
        logs \in {Errors, OldTimeout}, logStatus \in {"complete", "unavailable"}}
    \cup {[Snapshot(pods, <<>>, <<>>, logs, "complete") EXCEPT
              !.symptom = "CrashLoopBackOff", !.resource = [kind |-> "Pod", name |-> 1, ns |-> "b"],
              !.at = 0, !.alerts = {"HighErrors"}] :
        pods \in {<<Looping, Restarted>>, <<Unready>>}, logs \in {<<>>, Errors}}

Cause(id, expected, signals) == [id |-> id, expected |-> expected, signals |-> signals]
AnyOf(id, signals) == [id |-> id, anyOf |-> signals]
OutOfMemory == AnyOf("oom", {<<"terminated", "OOMKilled">>})
MCCatalogs ==
    <<<<[symptoms |-> {"CrashLoopBackOff"}, sources |-> {"kubernetes", "logs"},
         candidates |-> <<Cause("app_startup_failure", {"kubernetes"}, {}),
                          Cause("oom_killed", {"kubernetes"}, {OutOfMemory}),
                          Cause("database_connectivity_failure", {"kubernetes", "logs"},
                                {AnyOf("db", {<<"log", "timeout">>}),
                                 AnyOf("back", {<<"waiting", "CrashLoopBackOff">>,
                                                <<"alert", "HighErrors">>})})>>],
        [symptoms |-> {"Ingress 502/503", "Readiness probe response failure"},
         sources |-> {"kubernetes"},
         candidates |-> <<Cause("application_5xx_spike", {"logs"},
                                {AnyOf("x", {<<"log", "timeout">>})}),
                          Cause("new_cause", {"kubernetes"}, {})>>]>>,
      <<[symptoms |-> {"CrashLoopBackOff"}, sources |-> {"kubernetes"},
         candidates |-> <<Cause("oom_killed", {"kubernetes"}, {OutOfMemory})>>],
        [symptoms |-> {"CrashLoopBackOff", "ImagePullBackOff"}, sources |-> {"kubernetes"},
         candidates |-> <<Cause("oom_killed", {"metrics"},
                                {AnyOf("oom", {<<"log", "5xx">>}),
                                 AnyOf("event", {<<"event", "BackOff">>})}),
                          Cause("backend_readiness_failure", {"kubernetes"},
                                {AnyOf("p", {<<"event", "Failed">>})})>>]>>>>

-----------------------------------------------------------------------------
Component == {"collect", "intake", "pipeline", "inventory", "history", "timeline",
              "verification"}

Still(c, vars) == IF component = c THEN TRUE ELSE UNCHANGED vars

EvidenceInit ==
    /\ component \in Component
    /\ IF component = "collect" THEN TRUE
       ELSE /\ policy = CHOOSE p \in Policies : TRUE
            /\ objects = [s \in Scopes |-> Object]
    /\ IF component = "timeline" THEN TRUE
       ELSE workspace = CHOOSE w \in Workspaces : w.batches = {}
    /\ IF component = "verification" THEN TRUE
       ELSE alert = [original |-> "firing", refired |-> None]
    /\ CollectInit /\ IntakeInit /\ PipelineInit /\ InventoryInit /\ HistoryInit
    /\ TimelineInit /\ VerificationInit

EvidenceNext ==
    /\ component' = component
    /\ Still("collect", collectVars) /\ Still("intake", intakeVars)
    /\ Still("pipeline", pipelineVars) /\ Still("inventory", inventoryVars)
    /\ Still("history", historyVars) /\ Still("timeline", timelineVars)
    /\ Still("verification", verificationVars)
    /\ \/ component = "collect" /\ CollectNext
       \/ component = "intake" /\ IntakeNext
       \/ component = "pipeline" /\ PipelineNext
       \/ component = "inventory" /\ InventoryNext
       \/ component = "history" /\ HistoryNext
       \/ component = "timeline" /\ TimelineNext
       \/ component = "verification" /\ VerificationNext

EvidenceSpec == EvidenceInit /\ [][EvidenceNext]_<<component, collectVars, intakeVars,
    pipelineVars, inventoryVars, historyVars, timelineVars, verificationVars>>
=============================================================================
