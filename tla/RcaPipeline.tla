-------------------------------- MODULE RcaPipeline --------------------------------
(***************************************************************************)
(* From a stored evidence window to an RCA report and a recovery plan: the *)
(* incident, plan, analyze, rca and recovery workers.  Every worker is a   *)
(* step of its own, so a deployment may change the rule catalog between    *)
(* two of them.  Names of pods and workloads are numbers, and the wording  *)
(* of messages, logs and events is the class of text a rule looks for.     *)
(***************************************************************************)
EXTENDS Integers, FiniteSets, Sequences, SequencesExt

CONSTANTS
    Correlation,            \* correlation ids of evidence windows
    Snapshots,              \* evidence an agent or Alertmanager can send
    Catalogs,               \* rule catalogs of successive deployments
    EVENT_SIGNAL_MAX_AGE, MAX_LOG_SIGNAL_AGE,
    MAX_KUBERNETES_PODS, MAX_KUBERNETES_EVENTS, MAX_LOG_ENTRIES

ASSUME PipelineAssumption ==
    /\ Len(Catalogs) > 0
    /\ {EVENT_SIGNAL_MAX_AGE, MAX_LOG_SIGNAL_AGE} \subseteq Nat
    /\ {MAX_KUBERNETES_PODS, MAX_KUBERNETES_EVENTS, MAX_LOG_ENTRIES} \subseteq Nat \ {0}

VARIABLES
    deployed,   \* index of the catalog now deployed
    stored,     \* evidence rows by correlation
    claims,     \* incident_signal_claims
    stage,      \* the last event of a correlation's chain
    diagnosis,  \* what the incident worker classified
    bundle,     \* its evidence bundle
    candidates, \* what the plan worker planned
    evaluations,
    report,     \* rca_reports row: status, cause
    plan        \* recovery plan: candidates in order

pipelineVars == <<deployed, stored, claims, stage, diagnosis, bundle, candidates, evaluations, report, plan>>

-----------------------------------------------------------------------------
(***************************************************************************)
(* Symptoms (pipeline/symptom.py).                                         *)
(***************************************************************************)

UNKNOWN == "unknown"
NoResource == [kind |-> "Unknown", name |-> 0, ns |-> ""]

\* Signal labels in the order strings compare.
LABELS == <<"CrashLoopBackOff", "ErrImagePull", "FailedScheduling", "ImagePullBackOff", "OOMKilled",
            "PodNotReady", "ReadinessProbeFailed", "ServiceEndpointsEmpty">>

SymptomSignal(label, symptom, priority, rank, weight, resource) ==
    [label |-> label, symptom |-> symptom, resource |-> resource,
     key |-> <<priority, rank, -weight, resource.name,
               CHOOSE i \in DOMAIN LABELS : LABELS[i] = label>>]

SignalBefore(a, b) == \E i \in DOMAIN a : a[i] < b[i] /\ \A j \in 1..(i - 1) : a[j] = b[j]

\* The workload that owns the pod, or the pod.
pod_resource_hint(p) ==
    IF p.owner # 0 THEN [kind |-> "ReplicaSet", name |-> p.owner, ns |-> p.ns]
                   ELSE [kind |-> "Pod", name |-> p.name, ns |-> p.ns]

\* Waiting and terminated reasons; readiness only for a pod with no other signal.
pod_signals(p) ==
    LET S(label, symptom, priority) ==
            SymptomSignal(label, symptom, priority, 0, p.restarts, pod_resource_hint(p))
        primary ==
            {S(w, "ImagePullBackOff", 1) : w \in p.waiting \cap {"ImagePullBackOff", "ErrImagePull"}}
            \cup {S(w, "CrashLoopBackOff", 2) : w \in p.waiting \cap {"CrashLoopBackOff"}}
            \cup {S(t, "CrashLoopBackOff", 3) : t \in p.terminated \cap {"OOMKilled"}}
            \cup {S("FailedScheduling", "FailedScheduling", 4) :
                     x \in {p.phase} \cap (IF p.placed THEN {} ELSE {"Pending"})}
    IN IF primary = {} /\ p.phase = "Running" /\ ~p.ready
       THEN {S("PodNotReady", "Pod readiness failure", 6)}
       ELSE primary

\* Old warnings are ignored; unknown times are taken as current.
event_is_current_warning(v, e) ==
    v.warning /\ (e.at = 0 \/ v.seen = 0 \/ e.at - v.seen <= EVENT_SIGNAL_MAX_AGE)

EventPod(v, e) == {p \in ToSet(e.pods) : v.kind = "Pod" /\ p.name = v.name /\ p.ns = v.ns}

\* An event of a pod needs the pod; a failed probe a pod that is not ready.
event_is_active_for_snapshot(v, e) ==
    v.kind = "Pod" => \E p \in EventPod(v, e) : v.reason = "Unhealthy" => ~p.ready

event_signals(v, e) ==
    LET S(label, symptom, priority) ==
            SymptomSignal(label, symptom, priority, 1, v.count, [kind |-> v.kind, name |-> v.name, ns |-> v.ns])
    IN CASE v.reason = "FailedScheduling" -> {S("FailedScheduling", "FailedScheduling", 4)}
         [] v.reason = "OOMKilling" -> {S("OOMKilled", "CrashLoopBackOff", 3)}
         [] v.reason = "Failed" -> {S("ErrImagePull", "ImagePullBackOff", 1)}
         [] v.reason = "BackOffPull" -> {S("ImagePullBackOff", "ImagePullBackOff", 1)}
         [] v.reason = "BackOff" -> {S("CrashLoopBackOff", "CrashLoopBackOff", 2)}
         [] v.reason = "Unhealthy" ->
              {SymptomSignal("ReadinessProbeFailed", "Readiness probe response failure", 5, 1, v.count,
                   IF EventPod(v, e) = {} THEN [kind |-> v.kind, name |-> v.name, ns |-> v.ns]
                   ELSE pod_resource_hint(CHOOSE p \in EventPod(v, e) : TRUE))}
         [] OTHER -> {}

\* A selector that no pod meets, and slices that were collected and are empty.
service_endpoint_signals(e) ==
    {SymptomSignal("ServiceEndpointsEmpty", "Service has no ready endpoints", 7, 2, 0,
            [kind |-> "Service", name |-> s.name, ns |-> s.ns]) :
        s \in {s \in ToSet(e.services) :
                 /\ s.selector # "" /\ s.slices # {}
                 /\ s.slices = {0}
                 /\ \A p \in ToSet(e.pods) : p.label # s.selector}}

\* In the order the code appends them: the first of equal signals wins the sort.
collect_signals(e) ==
    LET events == SelectSeq(e.events, LAMBDA v :
                      event_is_current_warning(v, e) /\ event_is_active_for_snapshot(v, e))
    IN FlattenSeq([i \in DOMAIN e.pods |-> SetToSeq(pod_signals(e.pods[i]))])
       \o FlattenSeq([i \in DOMAIN events |-> SetToSeq(event_signals(events[i], e))])
       \o SetToSeq(service_endpoint_signals(e))

\* The first signal in the order of the keys, as a set of at most one.
primary_signal(signals) ==
    LET First(i) == \A j \in DOMAIN signals :
                       IF j < i THEN SignalBefore(signals[i].key, signals[j].key)
                                ELSE ~SignalBefore(signals[j].key, signals[i].key)
    IN {signals[i] : i \in {i \in DOMAIN signals : First(i)}}

Derived(signal) ==
    [symptom |-> IF signal = {} THEN UNKNOWN ELSE (CHOOSE s \in signal : TRUE).symptom,
     signal |-> signal]

\* Explicit before derived before unknown.
derive_symptom(e) ==
    IF e.symptom # "" THEN [symptom |-> e.symptom, signal |-> {}]
    ELSE Derived(primary_signal(collect_signals(e)))

resolve_resource(e, signal) ==
    IF e.resource # NoResource THEN e.resource
    ELSE IF signal # {} THEN (CHOOSE s \in signal : TRUE).resource ELSE NoResource

-----------------------------------------------------------------------------
(***************************************************************************)
(* Incidents and evidence bundles (pipeline/incident.py, evidence_bundle). *)
(***************************************************************************)

log_sample_is_current(l, e) ==
    l.at = 0 \/ e.at = 0 \/ (e.at - l.at <= MAX_LOG_SIGNAL_AGE /\ l.at - e.at <= MAX_LOG_SIGNAL_AGE)

\* The first current failure of an application that names its workload.
derive_log_incident_signal(e) ==
    SelectInSeq(e.logs, LAMBDA l :
        /\ log_sample_is_current(l, e)
        /\ l.ns \notin {"management", "target"}
        /\ l.text \in {"5xx", "timeout"}
        /\ l.app # 0)

\* derived is derive_symptom(e), and log the index of the failure in the logs.
FromLogs(derived, log) == derived.symptom = UNKNOWN /\ log # 0

has_signal(e, derived, log) == derived.symptom # UNKNOWN \/ log # 0 \/ e.alerts # {}

classify(e, derived, log) ==
    IF FromLogs(derived, log)
    THEN [symptom |-> "Ingress 502/503",
          resource |-> [kind |-> "Deployment", name |-> e.logs[log].app, ns |-> e.logs[log].ns]]
    ELSE [symptom |-> derived.symptom, resource |-> resolve_resource(e, derived.signal)]

SOURCES == {"kubernetes", "metrics", "logs", "traces"}

SourceContent(e, source) ==
    CASE source = "kubernetes" -> e.at # 0 \/ e.pods # <<>> \/ e.events # <<>> \/ e.services # <<>> \/ e.symptom # ""
      [] source = "metrics" -> e.alerts # {} \/ e.metrics
      [] source = "logs" -> e.logs # <<>>
      [] source = "traces" -> e.traces

source_evidence_available(e, source) ==
    e.status[source] \notin {"unavailable", "not_queried"} /\ SourceContent(e, source)

same_namespace(x, ns) == ns = "" \/ x.ns \in {"", ns}

Upto(s, n) == SubSeq(s, 1, IF Len(s) < n THEN Len(s) ELSE n)

\* Rows of the resource, or the first rows of its namespace when it has none.
select_related_pods(e, r) ==
    LET pods == SelectSeq(e.pods, LAMBDA p : same_namespace(p, r.ns))
        own == SelectSeq(pods, LAMBDA p : r.name \in {p.name, p.owner})
    IN IF own = <<>> THEN Upto(pods, MAX_KUBERNETES_PODS) ELSE own

select_related_events(e, r, pods) ==
    LET events == SelectSeq(e.events, LAMBDA v : same_namespace(v, r.ns))
        own == SelectSeq(events, LAMBDA v : v.name \in {p.name : p \in ToSet(pods)} \cup {r.name})
    IN IF own = <<>> THEN Upto(events, MAX_KUBERNETES_EVENTS) ELSE own

compact_kubernetes_value(e, r) ==
    LET pods == select_related_pods(e, r)
    IN [pods |-> Upto(pods, MAX_KUBERNETES_PODS),
        events |-> Upto(select_related_events(e, r, pods), MAX_KUBERNETES_EVENTS)]

\* A bug for select_incident_log_entries: streams of every namespace count.
select_all_log_entries(e, ns) == e.logs

\* Streams of other namespaces are dropped; unlabelled ones stay.
select_incident_log_entries(e, ns) == SelectSeq(e.logs, LAMBDA l : same_namespace(l, ns))

\* Signals the catalog can ask for, from the compacted items of the bundle.
extract_bundle_signals(kubernetes, logs, alerts) ==
    UNION {{<<"waiting", w>> : w \in p.waiting} \cup {<<"terminated", t>> : t \in p.terminated} :
              p \in ToSet(kubernetes.pods)}
    \cup {<<"event", v.reason>> : v \in ToSet(kubernetes.events)}
    \cup {<<"log", l.text>> : l \in ToSet(logs)}
    \cup {<<"alert", a>> : a \in alerts}

\* r is the resource the Kubernetes payload names, also for an incident found
\* in the logs.
collect_evidence_items(e, r) ==
    LET logs == IF source_evidence_available(e, "logs")
                THEN Upto(select_incident_log_entries(e, r.ns), MAX_LOG_ENTRIES) ELSE <<>>
        kube == IF source_evidence_available(e, "kubernetes")
                THEN compact_kubernetes_value(e, r) ELSE [pods |-> <<>>, events |-> <<>>]
        alerts == IF source_evidence_available(e, "metrics") THEN e.alerts ELSE {}
    IN [sources |-> {s \in SOURCES \ {"logs"} : source_evidence_available(e, s)}
                    \cup (IF logs # <<>> THEN {"logs"} ELSE {})
                    \cup e.metadata,
        signals |-> extract_bundle_signals(kube, logs, alerts)]

Rules(symptom) == SelectSeq(Catalogs[deployed], LAMBDA rule : symptom \in rule.symptoms)

required_evidence_sources(symptom) ==
    IF Rules(symptom) = <<>> THEN {"kubernetes"}
    ELSE UNION {rule.sources : rule \in ToSet(Rules(symptom))}

missing_source_checks(e, missing) ==
    [s \in missing |->
        IF s \in SOURCES /\ e.status[s] \in {"unavailable", "not_queried", "partial"}
        THEN e.status[s] ELSE "missing"]

build_incident_evidence_bundle(e, items, inc) ==
    [sources |-> items.sources, signals |-> items.signals,
     missing |-> missing_source_checks(e,
                     required_evidence_sources(inc.symptom) \ items.sources)]

-----------------------------------------------------------------------------
(***************************************************************************)
(* Causes (causes/engine.py, causes/signals.py).                           *)
(***************************************************************************)

\* One candidate per id: evidence united, groups by id, the first one stays.
merge_signal_groups(old, new) ==
    old \cup {g \in new : \A h \in old : h.id # g.id}

merge_candidates(specs) ==
    LET merge(acc, c) ==
            LET i == SelectInSeq(acc, LAMBDA x : x.id = c.id)
            IN IF i = 0 THEN Append(acc, c)
               ELSE [acc EXCEPT ![i].expected = @ \cup c.expected,
                                ![i].signals = merge_signal_groups(@, c.signals)]
    IN FoldLeft(merge, <<>>, specs)

plan_causes(inc) ==
    merge_candidates(FlattenSeq([i \in DOMAIN Rules(inc.symptom) |-> Rules(inc.symptom)[i].candidates]))

match_signal_group(g, signals) == g.anyOf \cap signals # {}

evaluate_causes(cands, b) ==
    [i \in DOMAIN cands |->
        LET c == cands[i]
            matched == {g \in c.signals : match_signal_group(g, b.signals)}
        IN [id |-> c.id,
            supporting |-> c.expected \cap b.sources,
            matched |-> Cardinality(matched), required |-> Cardinality(c.signals),
            missing |-> (c.expected \ b.sources) \cup {g.id : g \in c.signals \ matched},
            of |-> Cardinality(c.expected) + Cardinality(c.signals)]]

Score(v) == Cardinality(v.supporting) + v.matched

\* Higher score, then more signals matched, then less missing, then listed first.
Better(vs, i, j) ==
    LET a == vs[i] b == vs[j]
        x == Score(a) * b.of
        y == Score(b) * a.of
    IN \/ x > y
       \/ x = y /\ a.matched > b.matched
       \/ x = y /\ a.matched = b.matched /\ Cardinality(a.missing) < Cardinality(b.missing)
       \/ /\ x = y /\ a.matched = b.matched /\ Cardinality(a.missing) = Cardinality(b.missing)
          /\ i < j

analyze_root_cause(vs) ==
    LET supported == {i \in DOMAIN vs : vs[i].matched = vs[i].required /\ vs[i].supporting # {}}
    IN IF supported = {} THEN [cause |-> "insufficient_evidence", missing |-> {}]
       ELSE LET i == CHOOSE i \in supported : \A j \in supported \ {i} : Better(vs, i, j)
            IN [cause |-> vs[i].id, missing |-> vs[i].missing]

block_reason_code(cands, detail) ==
    IF cands = <<>> THEN "rule_missing"
    ELSE IF detail.cause = "insufficient_evidence" \/ detail.missing # {} THEN "insufficient_evidence"
    ELSE ""

-----------------------------------------------------------------------------
(***************************************************************************)
(* Recovery playbooks (recovery/builtin.py, recovery/engine.py): a Draft   *)
(* pull request, or a manual action that needs an approval.  The position  *)
(* in a rule is the rank of the action.                                    *)
(***************************************************************************)

Pr(type, score) == [type |-> type, manual |-> FALSE, score |-> score]
Manual(type, score) == [type |-> type, manual |-> TRUE, score |-> score]

WorkloadPlaybooks == {
    [causes |-> {"oom_killed"},
     actions |-> <<Manual("rollout_restart", 58), Pr("oom_memory", 56), Pr("replica_scale", 52)>>],
    [causes |-> {"application_5xx_spike"},
     actions |-> <<Pr("replica_scale", 62), Pr("gitops_recovery_review", 35), Manual("rollout_restart", 50)>>],
    [causes |-> {"backend_readiness_failure", "upstream_unavailable"},
     actions |-> <<Manual("rollout_restart", 66)>>]}

ImagePlaybooks == {
    [causes |-> {"bad_image_rollout", "app_startup_failure"}, actions |-> <<Pr("image_rollback", 74)>>],
    [causes |-> {"config_env_error"}, actions |-> <<Pr("config_fix", 68)>>],
    [causes |-> {"wrong_image_tag"}, actions |-> <<Pr("image_tag_fix", 70)>>],
    [causes |-> {"missing_image_pull_secret"}, actions |-> <<Manual("image_pull_secret_fix", 66)>>],
    [causes |-> {"registry_unavailable"}, actions |-> <<Manual("registry_recovery", 62)>>],
    [causes |-> {"insufficient_cpu", "insufficient_memory"}, actions |-> <<Pr("resource_request_tuning", 64)>>]}

PlacementPlaybooks == {
    [causes |-> {"node_affinity_or_taint_mismatch"}, actions |-> <<Pr("scheduling_constraint_fix", 68)>>],
    [causes |-> {"pvc_pending"}, actions |-> <<Manual("pvc_binding_fix", 62)>>],
    [causes |-> {"probe_path_wrong", "probe_port_wrong", "timeout_too_short", "startup_window_too_short"},
     actions |-> <<Pr("probe_fix", 66)>>],
    [causes |-> {"selector_label_mismatch"}, actions |-> <<Pr("selector_fix", 68)>>],
    [causes |-> {"app_port_bind_failed"}, actions |-> <<Manual("container_port_review", 62)>>]}

ReviewPlaybooks == {
    [causes |-> {"permission_denied_startup"}, actions |-> <<Manual("startup_security_context_review", 62)>>],
    [causes |-> {"config_key_missing"}, actions |-> <<Manual("config_key_review", 64)>>],
    [causes |-> {"missing_secret_reference"}, actions |-> <<Manual("secret_reference_fix", 64)>>],
    [causes |-> {"service_name_or_namespace_mismatch"}, actions |-> <<Manual("service_reference_review", 62)>>],
    [causes |-> {"network_policy_denied"}, actions |-> <<Manual("network_policy_review", 62)>>]}

CapacityPlaybooks == {
    [causes |-> {"metrics_server_unavailable"}, actions |-> <<Manual("autoscaling_metrics_recovery", 62)>>],
    [causes |-> {"missing_resource_requests"}, actions |-> <<Pr("resource_request_tuning", 64)>>],
    [causes |-> {"max_replica_limit_reached"}, actions |-> <<Pr("replica_scale", 62)>>],
    [causes |-> {"database_connectivity_failure", "database_connection_pool_exhausted"},
     actions |-> <<Manual("dependency_connection_review", 62)>>],
    [causes |-> {"database_credential_or_config_error"}, actions |-> <<Manual("dependency_config_review", 62)>>]}

FallbackPlaybook == <<Manual("manual_analysis", 0)>>

RECOVERY_RULES ==
    WorkloadPlaybooks \cup ImagePlaybooks \cup PlacementPlaybooks \cup ReviewPlaybooks \cup CapacityPlaybooks

\* Every action of the rules of the cause, and the one every cause has.
ranked_candidates(cause) ==
    LET Of(actions) == {[action |-> actions[i], rank |-> i] : i \in DOMAIN actions}
    IN UNION {Of(rule.actions) : rule \in {r \in RECOVERY_RULES : cause \in r.causes}}
       \cup Of(FallbackPlaybook)

\* Pull requests first, then rank, then score.
recovery_candidate_sort_key(c) ==
    <<IF c.action.manual THEN 1 ELSE 0, c.rank, -c.action.score>>

plan_body(cause) ==
    SetToSortSeq(ranked_candidates(cause),
        LAMBDA a, b : SignalBefore(recovery_candidate_sort_key(a), recovery_candidate_sort_key(b)))

-----------------------------------------------------------------------------
(***************************************************************************)
(* Workers.                                                                *)
(***************************************************************************)

pod_matches_incident(p, i) ==
    /\ p.ns = i.resource.ns
    /\ IF i.resource.kind = "Pod" THEN p.name = i.resource.name
       ELSE i.resource.kind = "ReplicaSet" /\ p.owner = i.resource.name

\* The newest termination of the incident's pods, else the evidence itself.
incident_termination_identity(c, e, i) ==
    LET ended == {p \in ToSet(e.pods) :
                     pod_matches_incident(p, i) /\ p.terminated # {} /\ p.restarts > 0}
        last == CHOOSE p \in ended : \A q \in ended \ {p} : SignalBefore(<<q.restarts, q.name>>, <<p.restarts, p.name>>)
    IN IF ended = {} THEN <<"evidence", c>>
       ELSE <<"termination", last.ns, last.name, last.restarts>>

NoBundle == [sources |-> {}, signals |-> {}, missing |-> <<>>]

PipelineInit ==
    /\ deployed = 1
    /\ stored = [c \in Correlation |-> <<>>]
    /\ claims = {}
    /\ stage = [c \in Correlation |-> "none"]
    /\ diagnosis = [c \in Correlation |-> [symptom |-> UNKNOWN, resource |-> NoResource]]
    /\ bundle = [c \in Correlation |-> NoBundle]
    /\ candidates = [c \in Correlation |-> <<>>]
    /\ evaluations = [c \in Correlation |-> <<>>]
    /\ report = [c \in Correlation |-> [status |-> "none", cause |-> ""]]
    /\ plan = [c \in Correlation |-> <<>>]

To(c, from, next) == stage[c] = from /\ stage' = [stage EXCEPT ![c] = next]

\* evidence-worker: evidence is stored, and announced by reference.
BuildEvidence(c, e) ==
    /\ To(c, "none", "evidence.built")
    /\ stored' = [stored EXCEPT ![c] = <<e>>]
    /\ UNCHANGED <<deployed, claims, diagnosis, bundle, candidates, evaluations, report, plan>>

\* incident-worker: the stored evidence is read back.
DetectIncident(c) ==
    /\ stage[c] = "evidence.built"
    /\ \E e \in ToSet(stored[c]) :
       \E derived \in {derive_symptom(e)}, log \in {derive_log_incident_signal(e)} :
       \E i \in {classify(e, derived, log)} :
       \E key \in {incident_termination_identity(c, e, i)} :
       \E items \in {collect_evidence_items(e, resolve_resource(e, derived.signal))} :
          IF has_signal(e, derived, log) /\ key \notin claims
          THEN /\ stage' = [stage EXCEPT ![c] = "evidence.bundle.built"]
               /\ claims' = claims \cup {key}
               /\ diagnosis' = [diagnosis EXCEPT ![c] = i]
               /\ bundle' = [bundle EXCEPT ![c] = build_incident_evidence_bundle(e, items, i)]
          ELSE /\ stage' = [stage EXCEPT ![c] = "ended"]
               /\ UNCHANGED <<claims, diagnosis, bundle>>
    /\ UNCHANGED <<deployed, stored, candidates, evaluations, report, plan>>

\* plan-worker
on_evidence_bundle_built(c) ==
    /\ To(c, "evidence.bundle.built", "rca.candidates.planned")
    /\ candidates' = [candidates EXCEPT ![c] = plan_causes(diagnosis[c])]
    /\ UNCHANGED <<deployed, stored, claims, diagnosis, bundle, evaluations, report, plan>>

\* analyze-worker
on_candidates_planned(c) ==
    /\ To(c, "rca.candidates.planned", "rca.candidates.evaluated")
    /\ evaluations' = [evaluations EXCEPT ![c] = evaluate_causes(candidates[c], bundle[c])]
    /\ UNCHANGED <<deployed, stored, claims, diagnosis, bundle, candidates, report, plan>>

\* rca-worker
on_candidates_evaluated(c) ==
    /\ \E detail \in {analyze_root_cause(evaluations[c])} :
          IF block_reason_code(candidates[c], detail) = ""
          THEN /\ To(c, "rca.candidates.evaluated", "rca.completed")
               /\ report' = [report EXCEPT ![c] = [status |-> "completed", cause |-> detail.cause]]
          ELSE /\ To(c, "rca.candidates.evaluated", "blocked")
               /\ report' = [report EXCEPT ![c] =
                                [status |-> "blocked", cause |-> "insufficient_evidence"]]
    /\ UNCHANGED <<deployed, stored, claims, diagnosis, bundle, candidates, evaluations, plan>>

\* recovery-worker, then select-worker
on_rca_completed(c) ==
    /\ To(c, "rca.completed", "recovery.planned")
    /\ plan' = [plan EXCEPT ![c] = plan_body(report[c].cause)]
    /\ UNCHANGED <<deployed, stored, claims, diagnosis, bundle, candidates, evaluations, report>>

on_recovery_planned(c) ==
    /\ To(c, "recovery.planned", "selection_requested")
    /\ UNCHANGED <<deployed, stored, claims, diagnosis, bundle, candidates, evaluations, report, plan>>

\* A new image brings a new rule catalog.
Deploy ==
    /\ deployed < Len(Catalogs)
    /\ deployed' = deployed + 1
    /\ UNCHANGED <<stored, claims, stage, diagnosis, bundle, candidates, evaluations, report, plan>>

PipelineNext ==
    \/ \E c \in Correlation :
          \/ \E e \in Snapshots : BuildEvidence(c, e)
          \/ DetectIncident(c)
          \/ on_evidence_bundle_built(c)
          \/ on_candidates_planned(c)
          \/ on_candidates_evaluated(c)
          \/ on_rca_completed(c)
          \/ on_recovery_planned(c)
    \/ Deploy

PipelineSpec == PipelineInit /\ [][PipelineNext]_pipelineVars

-----------------------------------------------------------------------------
(***************************************************************************)
(* What a report promises.                                                 *)
(***************************************************************************)

\* The failure a symptom stands for, looked up in the raw evidence.
SeenInEvidence(e, i) ==
    \/ e.symptom = i.symptom
    \/ \E p \in ToSet(e.pods) :
          /\ i.resource.name \in {p.name, p.owner} /\ i.resource.ns = p.ns
          /\ \/ ~p.ready
             \/ p.waiting # {} \/ p.terminated # {} \/ ~p.placed
    \/ \E v \in ToSet(e.events) :
          /\ v.warning /\ (v.seen = 0 \/ e.at = 0 \/ v.seen >= e.at - EVENT_SIGNAL_MAX_AGE)
          /\ v.kind # "Pod" \/ \E p \in ToSet(e.pods) : p.name = v.name /\ p.ns = v.ns
          /\ i.resource.name = v.name
    \/ \E s \in ToSet(e.services) : i.resource.name = s.name /\ s.slices = {0}
    \/ \E l \in ToSet(e.logs) :
          l.text # "plain" /\ i.resource.name = l.app /\ l.ns \notin {"management", "target"}

\* The scope of an incident: an incident found in the logs has no resource.
IncidentScope(e, i) ==
    IF FromLogs(derive_symptom(e), derive_log_incident_signal(e)) THEN "" ELSE i.resource.ns

\* A discriminating signal, looked up in the rows of the incident's scope.
SignalInEvidence(e, ns, token) ==
    LET In(x) == ns = "" \/ x.ns \in {"", ns}
    IN \/ \E p \in ToSet(e.pods) : In(p) /\ token \in ({"waiting"} \X p.waiting) \cup ({"terminated"} \X p.terminated)
       \/ \E v \in ToSet(e.events) : In(v) /\ token = <<"event", v.reason>>
       \/ \E l \in ToSet(e.logs) : In(l) /\ token = <<"log", l.text>>
       \/ \E a \in e.alerts : token = <<"alert", a>>

\* A completed report is grounded: its symptom is a failure the raw evidence
\* shows now, its cause belongs to a rule for that symptom in one deployed
\* catalog, every source the cause needs was collected, and every
\* discriminating signal of it occurs in the evidence of the incident's
\* namespace, whatever was deployed between the workers' steps.  No planned
\* cause with all its evidence and more signals lost to it (causes/engine.py).
ReportIsGrounded ==
    \A c \in {c \in Correlation : report[c].status = "completed"} :
        \A e \in ToSet(stored[c]), i \in {diagnosis[c]} : \A ns \in {IncidentScope(e, i)} :
        LET Whole(k) == /\ \A s \in k.expected \cap SOURCES : e.status[s] \notin {"unavailable", "not_queried"}
                        /\ \A s \in k.expected : s \in SOURCES => SourceContent(e, s)
                        /\ \A g \in k.signals : \E t \in g.anyOf : SignalInEvidence(e, ns, t)
        IN /\ i.symptom = UNKNOWN \/ SeenInEvidence(e, i)
           /\ \E n \in 1..deployed : \E rule \in ToSet(Catalogs[n]) :
                 /\ i.symptom \in rule.symptoms
                 /\ \E k \in ToSet(rule.candidates) : k.id = report[c].cause /\ Whole(k)
           /\ \A k \in ToSet(candidates[c]) : k.id = report[c].cause => Whole(k)
           /\ \A v \in ToSet(evaluations[c]) :
                 v.missing = {} /\ v.required > 0 =>
                    \E w \in ToSet(evaluations[c]) : w.id = report[c].cause /\ w.matched >= v.required

\* The first action of a plan is one of the playbook of the reported cause,
\* and a pull request whenever that playbook has one; analysis by hand is
\* first only for a cause without a playbook (recovery/engine.py).
RecommendationFits ==
    \A c \in {c \in Correlation : plan[c] # <<>>} :
        LET own == {r \in RECOVERY_RULES : report[c].cause \in r.causes}
            first == plan[c][1].action
        IN /\ (own = {}) <=> (first \in ToSet(FallbackPlaybook))
           /\ (\E r \in own : \E a \in ToSet(r.actions) : ~a.manual) => ~first.manual
           /\ \A r \in own : \E a \in ToSet(r.actions) : a \in {x.action : x \in ToSet(plan[c])}

\* What the pipeline hands to the operator stands on the evidence: the cause
\* and the recommendation both (rca-worker and recovery-worker).
DiagnosisHolds == ReportIsGrounded /\ RecommendationFits
====================================================================================
