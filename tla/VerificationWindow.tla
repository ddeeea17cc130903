--------------------------- MODULE VerificationWindow ---------------------------
(***************************************************************************)
(* The verdict over the evidence windows that follow a recovery.           *)
(* evaluate_recovery_evidence judges one window against what was recorded  *)
(* before the recovery and against the progress kept in the plan; the      *)
(* feedback worker stores the decision.  Windows come late, again and in   *)
(* any order, alerts resolve and fire again meanwhile, and an operator     *)
(* may start the verification anew.                                        *)
(*                                                                         *)
(* Time is counted in half cadences.  A check is "yes", "no" or, when its  *)
(* evidence is missing or ambiguous, "none".                               *)
(***************************************************************************)
EXTENDS Integers, FiniteSets, FiniteSetsExt

CONSTANTS
    Content,            \* bound: what a window may show, by name
    Shown,              \* the evidence of each content, see Evidence below
    Before,             \* what was recorded before the recovery
    Cadence,            \* evidence_cadence_seconds
    MinStable,          \* minimum_seconds
    MaxVerify,          \* maximum_seconds
    MaxClock            \* bound: time

ASSUME VerificationAssumption ==
    /\ {Cadence, MinStable, MaxVerify, MaxClock} \subseteq Nat \ {0}
    /\ MinStable <= MaxVerify
    /\ DOMAIN Shown = Content

VARIABLES
    phase,      \* status of the recovery plan
    progress,   \* lifecycle.verification
    alert,      \* alert_events rows of the SLI's rule and subject
    clock,
    healthy     \* history: windows that showed a recovered system since the last that did not

verificationVars == <<phase, progress, alert, clock, healthy>>

None == -1

Fresh(started) ==
    [started |-> started, healthy_since |-> None, last_healthy |-> None, count |-> 0,
     last_key |-> None, last_samples |-> Before.sessionsAt]

\* on_recovery_safe_pr_created and the deployment left the plan here.
VerificationInit ==
    /\ phase = "deploy_pending"
    /\ progress = Fresh(None)
    /\ alert \in [original : {"firing", "resolved"}, refired : {None}]
    /\ clock = 0
    /\ healthy = {}

-----------------------------------------------------------------------------
(***************************************************************************)
(* observed_after: what a window shows of the target and its peers.        *)
(* Evidence is a record with                                               *)
(*   ratio, rate   samples [series, value] under the SLI's metric names    *)
(*   target        Deployment statuses of the target                       *)
(*   peers         statuses of the other Deployments, by name              *)
(*   sessions      samples [name, pod, value, age] of active sessions      *)
(***************************************************************************)

\* The one sample of the recorded series; several, or none, tell nothing.
metric_sample(samples, series) ==
    LET own == {s \in samples : s.series = series} IN
    IF Cardinality(own) = 1 THEN (CHOOSE s \in own : TRUE).value ELSE None

deployment_replicas(e) ==
    IF Cardinality(e.target) = 1 THEN e.target ELSE {}

\* The workloads recorded before the recovery that the window shows.
protected_workloads(e) ==
    {[name |-> n, pods |-> e.peers[n].pods, restarts |-> e.peers[n].restarts,
      healthy |-> /\ e.peers[n].desired > 0
                  /\ e.peers[n].ready >= e.peers[n].desired
                  /\ Cardinality(e.peers[n].pods) >= e.peers[n].desired]
       : n \in DOMAIN Before.peers \cap DOMAIN e.peers}

protected_workloads_unchanged(current) ==
    IF Before.peers = <<>> THEN "none"
    ELSE IF {[name |-> n, pods |-> Before.peers[n].pods, restarts |-> Before.peers[n].restarts]
               : n \in DOMAIN Before.peers}
            = {[name |-> c.name, pods |-> c.pods, restarts |-> c.restarts] : c \in current}
         THEN "yes" ELSE "no"

\* One current sample for each recorded series, none older than the last one
\* used: a function from series to values.
protected_active_session_series(e, w) ==
    LET usable == {s \in e.sessions :
                     /\ [name |-> s.name, pod |-> s.pod] \in DOMAIN Before.sessions
                     /\ s.value > 0 /\ s.age <= Before.maxAge
                     /\ w - s.age >= progress.last_samples}
        series == {[name |-> s.name, pod |-> s.pod] : s \in usable}
    IN  IF series = DOMAIN Before.sessions /\ Cardinality(usable) = Cardinality(series)
        THEN [k \in series |-> (CHOOSE s \in usable : s.name = k.name /\ s.pod = k.pod).value]
        ELSE <<>>

protected_active_sessions_maintained(current) ==
    IF Before.sessions = <<>> \/ current = <<>> THEN "none"
    ELSE IF \A k \in DOMAIN Before.sessions : current[k] >= Before.sessions[k]
         THEN "yes" ELSE "no"

\* The occurrence recorded before, and any that fired since the start.
alert_checks ==
    LET refire == alert.refired # None /\ alert.refired >= progress.started IN
    [alertmanager_resolved |-> IF alert.original = "resolved" THEN "yes" ELSE "no",
     alertmanager_no_refire |-> IF refire THEN "no" ELSE "yes"]

-----------------------------------------------------------------------------

\* A bug for Check: missing evidence passes.
CheckLenient(known, holds) == IF known /\ ~holds THEN "no" ELSE "yes"

Check(known, holds) == IF ~known THEN "none" ELSE IF holds THEN "yes" ELSE "no"

verification_checks(e, w) ==
    LET ratio == metric_sample(e.ratio, Before.series)
        rate == metric_sample(e.rate, Before.series)
        seen == deployment_replicas(e) # {}
        d == CHOOSE x \in deployment_replicas(e) : TRUE
        restored(field) == Check(seen, seen /\ d[field] = Before.replicas)
        omitted == /\ seen /\ d.unavailable = None
                   /\ {d.desired, d.ready, d.updated, d.available} = {Before.replicas}
                   /\ d.observed >= d.generation
        protected == protected_workloads(e)
        sessions == protected_active_session_series(e, w)
        continuity == Before.peers # <<>>
        alerts == alert_checks
    IN  {Check(ratio # None, ratio <= Before.ratioMax),
         Check(rate # None /\ Before.rate > 0,
               LET gap == IF rate > Before.rate THEN rate - Before.rate ELSE Before.rate - rate
               IN  gap * 100 <= Before.rate * Before.tolerance),
         restored("desired"), restored("ready"), restored("updated"), restored("available"),
         IF seen /\ d.unavailable # None THEN Check(TRUE, d.unavailable = 0)
         ELSE Check(omitted, TRUE),
         Check(seen, seen /\ d.observed = d.generation),
         Check(TRUE, continuity => Cardinality(protected) >= Cardinality(DOMAIN Before.peers)),
         Check(TRUE, continuity => \A p \in protected : p.healthy),
         IF continuity THEN protected_workloads_unchanged(protected) ELSE "yes",
         IF continuity THEN Check(sessions # <<>>, TRUE) ELSE "yes",
         IF continuity THEN protected_active_sessions_maintained(sessions) ELSE "yes",
         alerts.alertmanager_resolved, alerts.alertmanager_no_refire}

minimum_distinct == Max({2, (MinStable + Cadence - 1) \div Cadence + 1})

\* The key of a window is its start.  Each decision is the new progress.
evaluate_recovery_evidence(e, w) ==
    LET checks == verification_checks(e, w)
        late == clock >= progress.started + MaxVerify
        same(status) == [status |-> status, progress |-> progress]
        gap == w - progress.last_healthy
        broken == progress.last_healthy # None /\ (gap <= 0 \/ 2 * gap > 3 * Cadence)
        since == IF broken \/ progress.healthy_since = None THEN w ELSE progress.healthy_since
        count == (IF broken THEN 0 ELSE progress.count) + 1
    IN  IF w = progress.last_key \/ w < progress.started \/ w > clock
        THEN same("pending")
        ELSE IF checks # {"yes"}
        THEN [status |-> IF late THEN "failed" ELSE "pending",
              progress |-> [progress EXCEPT !.healthy_since = None, !.last_healthy = None,
                                            !.count = 0, !.last_key = w]]
        ELSE [status |-> IF w - since >= MinStable /\ count >= minimum_distinct THEN "completed"
                         ELSE IF late THEN "failed" ELSE "pending",
              progress |-> [progress EXCEPT !.healthy_since = since, !.last_healthy = w,
                                            !.count = count, !.last_key = w]]

\* The reference: every condition of the contract, read off the evidence.
Recovered(e, w) ==
    /\ \E s \in e.ratio : s.series = Before.series /\ s.value <= Before.ratioMax
    /\ \A s, t \in e.ratio : s.series = Before.series /\ t.series = Before.series => s = t
    /\ \E s \in e.rate : s.series = Before.series /\ s.value * 100 >= Before.rate * (100 - Before.tolerance)
                       /\ s.value * 100 <= Before.rate * (100 + Before.tolerance)
    /\ \E d \in e.target :
         /\ e.target = {d} /\ d.observed = d.generation
         /\ \A f \in {"desired", "ready", "updated", "available"} : d[f] = Before.replicas
         /\ d.unavailable \in {0, None}
    /\ \A n \in DOMAIN Before.peers :
         /\ n \in DOMAIN e.peers
         /\ e.peers[n].pods = Before.peers[n].pods /\ e.peers[n].restarts = Before.peers[n].restarts
    /\ \A k \in DOMAIN Before.sessions :
         \E s \in e.sessions : s.name = k.name /\ s.pod = k.pod /\ s.value >= Before.sessions[k]
    /\ alert.original = "resolved" /\ ~(alert.refired >= progress.started)

-----------------------------------------------------------------------------

\* on_recovery_verification_evidence: the decision, the samples it read and
\* the status are stored while the plan is still being verified.
on_recovery_verification_evidence(w, c) ==
    /\ phase = "verification_pending"
    /\ LET e == Shown[c]
           decision == evaluate_recovery_evidence(e, w)
           samples == protected_active_session_series(e, w)
       IN  /\ progress' = [decision.progress EXCEPT
                  !.last_samples = IF samples = <<>> THEN @
                                   ELSE Min({w - s.age : s \in e.sessions})]
           /\ phase' = IF decision.status = "pending" THEN phase ELSE decision.status
           /\ healthy' = IF w = progress.last_key \/ w < progress.started \/ w > clock THEN healthy
                         ELSE IF Recovered(e, w) THEN healthy \cup {w} ELSE {}
    /\ UNCHANGED <<alert, clock>>

\* on_recovery_workflow_succeeded: what is left of an earlier attempt was
\* cleared when that attempt was retried.
start_recovery_verification ==
    /\ phase = "deploy_pending"
    /\ phase' = "verification_pending"
    /\ progress' = [progress EXCEPT !.started = clock, !.healthy_since = None]
    /\ healthy' = {}
    /\ UNCHANGED <<alert, clock>>

\* A failed verification is started anew, with the samples of the baseline.
verification_retry_lifecycle ==
    /\ phase = "failed"
    /\ phase' = "verification_pending"
    /\ progress' = Fresh(clock)
    /\ healthy' = {}
    /\ UNCHANGED <<alert, clock>>

Alertmanager ==
    /\ \/ alert.original = "firing" /\ alert' = [alert EXCEPT !.original = "resolved"]
       \/ alert' = [alert EXCEPT !.refired = clock]
    /\ UNCHANGED <<phase, progress, clock, healthy>>

Elapse ==
    /\ clock < MaxClock
    /\ clock' = clock + 1
    /\ UNCHANGED <<phase, progress, alert, healthy>>

VerificationNext ==
    \/ \E w \in 0 .. clock + 1, c \in Content : on_recovery_verification_evidence(w, c)
    \/ start_recovery_verification \/ verification_retry_lifecycle
    \/ Alertmanager \/ Elapse

VerificationSpec == VerificationInit /\ [][VerificationNext]_verificationVars

-----------------------------------------------------------------------------

\* A plan is completed only after enough windows of the current verification,
\* spanning the stabilisation time without a gap, each of which showed the
\* recovered system, and after none that did not (evaluate_recovery_evidence:
\* every condition held "for minimum_seconds or more without a break").
VerifiedWasStable ==
    phase = "completed" =>
        \E S \in SUBSET healthy :
            /\ Cardinality(S) >= minimum_distinct
            /\ \E a, b \in S : b - a >= MinStable
            /\ \A t \in S : t >= progress.started
            /\ \A t \in S : t = Max(S) \/ \E u \in S : t < u /\ 2 * (u - t) <= 3 * Cadence
=================================================================================
