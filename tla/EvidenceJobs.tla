------------------------------ MODULE EvidenceJobs ------------------------------
(***************************************************************************)
(* Evidence collection jobs.  The scheduler of the cluster agent queues    *)
(* one job per due provider and window; workers lease jobs, collect and    *)
(* report; a lease may expire, a reply or a report may be lost or late;    *)
(* a janitor ends jobs without attempts left; a window whose jobs have     *)
(* all ended is sealed once.                                               *)
(*                                                                         *)
(* Every lease takes an attempt, so the attempt number of a job row also   *)
(* identifies its lease_id.  Time is the index of the evidence window.     *)
(***************************************************************************)
EXTENDS Naturals, FiniteSets, Functions

CONSTANTS
    Provider,
    MaxAttempts,        \* evidence_jobs.max_attempts, by provider
    Strict,             \* failure_policy = "strict"
    Configured,         \* bound: the sets of providers a changed schedule enables
    Outcome,            \* bound: how a collection ends: [raises, queries, answered, found]
    MaxWindow,          \* bound: windows
    MaxRevision         \* bound: changes of the provider set

ASSUME JobsAssumption ==
    MaxAttempts \in [Provider -> Nat \ {0}] /\ MaxWindow \in Nat \ {0} /\ MaxRevision \in Nat
    /\ Strict \in BOOLEAN /\ Configured \subseteq SUBSET Provider

VARIABLES
    jobs,       \* evidence_jobs rows by <<window, provider>>
    sealed,     \* evidence_windows: the aggregated payload of a window
    now,        \* current window
    nextRun,    \* next_provider_runs
    enabled,    \* enabled_provider_keys
    revision,   \* _schedule_revision
    call,       \* the request the scheduler waits for
    requests,   \* scheduling requests sent: received late, again, or never
    changed     \* history: windows in which the set of providers changed

schedVars == <<now, nextRun, enabled, revision, call, requests, changed>>
jobsVars == <<jobs, sealed, schedVars>>

Window == 1 .. MaxWindow
NoJob == [status |-> "none"]
NoCall == [at |-> "none"]
Unsealed == [at |-> "open"]

JobsInit ==
    /\ jobs = [j \in Window \X Provider |-> NoJob]
    /\ sealed = [w \in Window |-> Unsealed]
    /\ now = 1
    /\ nextRun = [p \in Provider |-> 0]
    /\ enabled = Provider
    /\ revision = 0
    /\ call = NoCall
    /\ requests = {}
    /\ changed = {}

-----------------------------------------------------------------------------
(***************************************************************************)
(* EvidenceJobScheduler.                                                   *)
(***************************************************************************)

due_provider_keys == {p \in enabled : now >= nextRun[p]}

\* schedule_once up to its await: the due providers enter the current window.
schedule_once ==
    /\ call = NoCall
    /\ due_provider_keys # {}
    /\ LET request == [window |-> now, due |-> due_provider_keys] IN
         /\ call' = [at |-> "sent", request |-> request, revision |-> revision]
         /\ requests' = requests \cup {request}
    /\ UNCHANGED <<jobs, sealed, now, nextRun, enabled, revision, changed>>

\* The whole set is inserted in one transaction; existing jobs are kept.
queue_evidence_jobs(q) ==
    /\ q \in requests
    /\ jobs' = [j \in Window \X Provider |->
           IF j[1] = q.window /\ j[2] \in q.due /\ jobs[j] = NoJob
           THEN [status |-> "queued", attempts |-> 0, by |-> 0, result |-> NoJob]
           ELSE jobs[j]]
    /\ call' = IF call.at = "sent" /\ call.request = q THEN [call EXCEPT !.at = "done"] ELSE call
    /\ UNCHANGED <<sealed, now, nextRun, enabled, revision, requests, changed>>

\* After the await: the run times move unless the schedule changed meanwhile.
scheduled ==
    /\ call.at = "done"
    /\ nextRun' = [p \in Provider |->
           IF call.revision = revision /\ p \in call.request.due
           THEN call.request.window + 1 ELSE nextRun[p]]
    /\ call' = NoCall
    /\ UNCHANGED <<jobs, sealed, now, enabled, revision, requests, changed>>

\* The request times out, is lost, or its reply is; schedule_forever tries
\* again, and the server may still receive the first request.
schedule_failed ==
    /\ call # NoCall
    /\ call' = NoCall
    /\ UNCHANGED <<jobs, sealed, now, nextRun, enabled, revision, requests, changed>>

\* configure_schedule, register_provider and unregister_provider: a changed
\* set of providers is due at once, all of it.
align_enabled_provider_runs(providers) ==
    /\ providers # enabled
    /\ revision < MaxRevision
    /\ enabled' = providers
    /\ revision' = revision + 1
    /\ nextRun' = [p \in Provider |-> IF p \in providers THEN 0 ELSE nextRun[p]]
    /\ changed' = changed \cup {now}
    /\ UNCHANGED <<jobs, sealed, now, call, requests>>

NextWindow ==
    /\ now < MaxWindow
    /\ now' = now + 1
    /\ UNCHANGED <<jobs, sealed, nextRun, enabled, revision, call, requests, changed>>

-----------------------------------------------------------------------------
(***************************************************************************)
(* Workers and the job table.                                              *)
(***************************************************************************)

\* Queued, or leased and the lease has run out, which it may at any time.
Available(j) ==
    /\ jobs[j].status \in {"queued", "leased"}
    /\ jobs[j].attempts < MaxAttempts[j[2]]

\* work_once of any worker of any agent leases the oldest available job of
\* its provider; the reply may be lost and the worker may die.
lease_evidence_job(p) ==
    /\ \E w \in Window :
         LET j == <<w, p>> IN
           /\ Available(j)
           /\ \A v \in Window : v < w => jobs[<<v, p>>].status = "leased" \/ ~Available(<<v, p>>)
           /\ jobs' = [jobs EXCEPT ![j].status = "leased", ![j].attempts = @ + 1]
    /\ UNCHANGED <<sealed, schedVars>>

\* What collecting q queries, ok of them answered, says of the provider.
collect_with_queries_outcome(q, ok) ==
    CASE q = 0 -> "not_queried"
      [] q > 0 /\ ok = q -> "completed"
      [] 0 < ok /\ ok < q -> "partial"
      [] OTHER -> "unavailable"

\* What the worker reports.  Under the strict policy a failed query fails the
\* job, as any exception does; otherwise the result says what was answered.
collect_job(o) ==
    IF o.raises \/ (Strict /\ o.answered < o.queries)
    THEN [status |-> "failed", result |-> NoJob]
    ELSE [status |-> "completed",
          result |-> [status |-> collect_with_queries_outcome(o.queries, o.answered),
                      found |-> o.found]]

\* A failure goes back to the queue while attempts are left.
Ended(j, lease, o, spent) ==
    LET report == collect_job(o) IN
    /\ jobs' = [jobs EXCEPT
           ![j].status = IF report.status = "completed" THEN "completed"
                         ELSE IF spent THEN "failed" ELSE "queued",
           ![j].by = lease,
           ![j].result = report.result]
    /\ UNCHANGED <<sealed, schedVars>>

\* A bug for complete_evidence_job: the job id alone identifies the report.
complete_without_lease(j, lease, o) ==
    jobs[j].status = "leased" /\ Ended(j, lease, o, lease >= MaxAttempts[j[2]])

\* A bug for complete_evidence_job: one failure too many is queued again.
complete_off_by_one(j, lease, o) ==
    /\ jobs[j].status = "leased" /\ jobs[j].attempts = lease
    /\ Ended(j, lease, o, lease > MaxAttempts[j[2]])

\* The report of any lease ever given, late, repeated or never: it counts if
\* its lease is the current one, run out or not.
complete_evidence_job(j, lease, o) ==
    /\ jobs[j].status = "leased" /\ jobs[j].attempts = lease
    /\ Ended(j, lease, o, lease >= MaxAttempts[j[2]])

Exhausted(j) == jobs[j].status = "leased" /\ jobs[j].attempts >= MaxAttempts[j[2]]

\* The janitor ends a job whose last lease has run out.
fail_exhausted_evidence_jobs(j) ==
    /\ Exhausted(j)
    /\ jobs' = [jobs EXCEPT ![j].status = "failed", ![j].result = NoJob]
    /\ UNCHANGED <<sealed, schedVars>>

-----------------------------------------------------------------------------
(***************************************************************************)
(* Aggregation: one payload of the results of a window.                    *)
(***************************************************************************)

JobsOf(w) == {p \in Provider : jobs[<<w, p>>] # NoJob}

\* The provider's own status, lowered where the payload is empty.
resolved_provider_collection_status(result) ==
    IF result.status \in {"unavailable", "not_queried"} THEN result.status
    ELSE IF result.found THEN result.status ELSE "unavailable"

Ready(w) ==
    /\ JobsOf(w) # {}
    /\ \A p \in JobsOf(w) : jobs[<<w, p>>].status \in {"completed", "failed"}
    /\ Strict => \A p \in JobsOf(w) : jobs[<<w, p>>].status # "failed"

aggregate_evidence_payload(w) ==
    [p \in JobsOf(w) |->
        LET row == jobs[<<w, p>>] IN
        IF row.status = "failed" THEN "unavailable"
        ELSE resolved_provider_collection_status(row.result)]

aggregate_collection_status(statuses) ==
    [complete |-> {p \in DOMAIN statuses : statuses[p] = "completed"} = DOMAIN statuses,
     failed |-> {p \in DOMAIN statuses : statuses[p] \in {"unavailable", "not_queried"}}]

\* The endpoints aggregate after a result or after the janitor; the window
\* is recorded once and the results are cleared with it.
SealWindow(w) ==
    /\ sealed[w] = Unsealed
    /\ Ready(w)
    /\ sealed' = [sealed EXCEPT ![w] =
           [at |-> "sealed", providers |-> aggregate_evidence_payload(w),
            status |-> aggregate_collection_status(aggregate_evidence_payload(w))]]
    /\ jobs' = [j \in Window \X Provider |->
           IF j[1] = w /\ jobs[j] # NoJob THEN [jobs[j] EXCEPT !.result = NoJob] ELSE jobs[j]]
    /\ UNCHANGED schedVars

JobsNext ==
    \/ schedule_once \/ scheduled \/ schedule_failed
    \/ \E q \in requests : queue_evidence_jobs(q)
    \/ \E ps \in Configured : align_enabled_provider_runs(ps)
    \/ NextWindow
    \/ \E p \in Provider : lease_evidence_job(p)
    \/ \E j \in Window \X Provider :
         \/ \E lease \in 1 .. MaxAttempts[j[2]], o \in Outcome : complete_evidence_job(j, lease, o)
         \/ fail_exhausted_evidence_jobs(j)
    \/ \E w \in Window : SealWindow(w)

JobsSpec == JobsInit /\ [][JobsNext]_jobsVars

-----------------------------------------------------------------------------

\* A late result of a lost lease changes nothing: a job that has ended keeps
\* its end, an accepted result is the one of the last lease, and a sealed
\* window keeps its payload (complete_evidence_job: "double acceptance is
\* structurally impossible").
ResultsAreFinal ==
    [][/\ \A j \in Window \X Provider :
            /\ jobs[j].status \in {"completed", "failed"} => jobs'[j].status = jobs[j].status
            /\ jobs'[j].status = "completed" => jobs'[j].by = jobs'[j].attempts
       /\ \A w \in Window : sealed[w] # Unsealed => sealed'[w] = sealed[w]]_jobsVars

\* A sealed window holds every job that was or will be queued for it, so that
\* no result comes too late to be in it, unless the set of providers changed
\* in that window (align_enabled_provider_runs queues the set as a whole).
SealedWindowIsWhole ==
    \A w \in Window \ changed :
        sealed[w] # Unsealed => JobsOf(w) = DOMAIN sealed[w].providers

\* Whatever is lost, no job is stuck: a job that has not ended can be leased
\* again or is one the janitor ends, so that its window can be sealed
\* (complete_evidence_job requeues a failure only while attempts are left,
\* and lease_evidence_job and fail_exhausted_evidence_jobs meet exactly).
JobNotStranded ==
    \A j \in Window \X Provider :
        jobs[j].status \in {"queued", "leased"} =>
            Available(j) \/ Exhausted(j)

\* What a window loses or waits for in vain: nothing.  Its payload is whole
\* and every job of it can still end (queue, lease, report, janitor and
\* aggregation of evidence jobs together).
WindowsSettle == SealedWindowIsWhole /\ JobNotStranded
=================================================================================
