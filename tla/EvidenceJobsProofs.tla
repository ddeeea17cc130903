-------------------------- MODULE EvidenceJobsProofs --------------------------
(***************************************************************************)
(* Proofs about EvidenceJobs for any providers, attempts, windows and      *)
(* outcomes, and any number of late, repeated and lost requests, leases    *)
(* and reports.                                                            *)
(***************************************************************************)
EXTENDS EvidenceJobs, TLAPS

Key == Window \X Provider

JobRow == [status : {"queued", "leased", "completed", "failed"}, attempts : Nat, by : Nat,
           result : {NoJob} \cup {collect_job(o).result : o \in Outcome}]

TableType == jobs \in [Key -> JobRow \cup {NoJob}] /\ now \in Nat

\* What complete_evidence_job and the janitor rely on: a queued job has an
\* attempt left, and a result belongs to the lease that is the job's last.
AttemptsInv ==
    \A j \in Key :
        /\ jobs[j].status = "queued" => jobs[j].attempts < MaxAttempts[j[2]]
        /\ jobs[j].status = "completed" => jobs[j].by = jobs[j].attempts

Request == [window : Nat, due : SUBSET Provider]
CallType == [at : {"sent", "done"}, request : Request, revision : Nat]

\* The scheduler waits for one request at a time, so none is for a later window
\* than the one it waits for.
SchedulerInv ==
    /\ requests \subseteq Request
    /\ \A q \in requests : q.window <= now
    /\ call # NoCall =>
          /\ call \in CallType
          /\ call.request \in requests
          /\ \A q \in requests : q.window <= call.request.window

\* While the set of providers stays the same in a window, every request for it
\* names the same providers; and while it is the current window, what is due
\* is what was asked for already, or nothing.
WindowIsUniform ==
    /\ \A q, r \in requests : q.window = r.window /\ q.window \notin changed => q.due = r.due
    /\ \A q \in requests : q.window = now /\ now \notin changed => due_provider_keys \in {q.due, {}}

\* The jobs of a window were all queued by one of its requests.
JobsWereAsked ==
    \A w \in Window \ changed :
        JobsOf(w) # {} => \E q \in requests : q.window = w /\ JobsOf(w) = q.due

SealedInv ==
    /\ DOMAIN sealed = Window
    /\ \A w \in Window : sealed[w] # Unsealed => DOMAIN sealed[w].providers # {}
    /\ SealedWindowIsWhole

EnabledType == enabled \subseteq Provider /\ revision \in Nat

JobsInv ==
    /\ TableType /\ EnabledType /\ AttemptsInv
    /\ SchedulerInv /\ WindowIsUniform /\ JobsWereAsked /\ SealedInv

\* A row that is no job has no status of a job.
LEMMA RowOrNone ==
    TableType => \A j \in Key : jobs[j] = NoJob \/ (jobs[j] \in JobRow /\ jobs[j] # NoJob)
  BY DEF TableType, JobRow, NoJob

LEMMA JobsStart == JobsInit => JobsInv
  <1> SUFFICES ASSUME JobsInit PROVE JobsInv
    OBVIOUS
  <1>1. jobs = [j \in Key |-> NoJob] /\ \A j \in Key : jobs[j].status = "none"
    BY DEF JobsInit, Key, NoJob
  <1>2. TableType /\ EnabledType /\ AttemptsInv
    BY <1>1 DEF JobsInit, TableType, EnabledType, AttemptsInv
  <1>3. SchedulerInv /\ WindowIsUniform
    BY DEF JobsInit, SchedulerInv, WindowIsUniform
  <1>4. \A w \in Window : JobsOf(w) = {} /\ sealed[w] = Unsealed
    BY <1>1 DEF JobsInit, JobsOf, Key
  <1>5. JobsWereAsked /\ SealedInv
    BY <1>4 DEF JobsInit, JobsWereAsked, SealedInv, SealedWindowIsWhole
  <1> QED
    BY <1>2, <1>3, <1>5 DEF JobsInv

\* A step that only moves rows of the job table from status to status: nothing
\* the scheduler or the sealed windows rely on changes.
LEMMA RowStep ==
    ASSUME JobsInv, NEW j \in Key, jobs[j] \in JobRow, NEW row \in JobRow,
           jobs' = [jobs EXCEPT ![j] = row], UNCHANGED <<sealed, schedVars>>,
           row.status = "queued" => row.attempts < MaxAttempts[j[2]],
           row.status = "completed" => row.by = row.attempts
    PROVE  JobsInv'
  <1>1. TableType' /\ EnabledType'
    BY DEF JobsInv, TableType, EnabledType, schedVars
  <1>2. AttemptsInv'
    BY DEF JobsInv, TableType, AttemptsInv
  <1>3. \A w \in Window : JobsOf(w)' = JobsOf(w)
    <2>1. \A k \in Key : jobs[k] = NoJob <=> jobs'[k] = NoJob
      BY DEF JobsInv, TableType, JobRow, NoJob
    <2> QED
      BY <2>1 DEF JobsOf, Key
  <1>4. SchedulerInv' /\ WindowIsUniform'
    BY DEF JobsInv, SchedulerInv, WindowIsUniform, due_provider_keys, schedVars
  <1>5. JobsWereAsked' /\ SealedInv'
    BY <1>3 DEF JobsInv, JobsWereAsked, SealedInv, SealedWindowIsWhole, schedVars
  <1> QED
    BY <1>1, <1>2, <1>4, <1>5 DEF JobsInv

\* Workers, reports and the janitor.
LEMMA WorkStep ==
    ASSUME JobsInv,
           \/ \E p \in Provider : lease_evidence_job(p)
           \/ \E j \in Key, lease \in Nat, o \in Outcome : complete_evidence_job(j, lease, o)
           \/ \E j \in Key : fail_exhausted_evidence_jobs(j)
    PROVE  JobsInv'
  <1>1. ASSUME NEW p \in Provider, lease_evidence_job(p) PROVE JobsInv'
    <2>1. PICK w \in Window :
            /\ Available(<<w, p>>)
            /\ jobs' = [jobs EXCEPT ![<<w, p>>].status = "leased", ![<<w, p>>].attempts = @ + 1]
      BY <1>1 DEF lease_evidence_job
    <2> DEFINE j == <<w, p>>
               row == [jobs[j] EXCEPT !.status = "leased", !.attempts = @ + 1]
    <2>2. j \in Key /\ jobs[j] \in JobRow
      BY <2>1, RowOrNone DEF JobsInv, Key, Available, NoJob
    <2>6. jobs[j].attempts + 1 \in Nat
      BY <2>2 DEF JobRow
    <2>3. row \in JobRow /\ row.status = "leased"
      BY <2>2, <2>6 DEF JobRow
    <2>4. jobs' = [jobs EXCEPT ![j] = row]
      BY <2>1, <2>2 DEF JobsInv, TableType, JobRow
    <2>5. UNCHANGED <<sealed, schedVars>>
      BY <1>1 DEF lease_evidence_job
    <2> HIDE DEF row, j
    <2> QED
      BY <2>2, <2>3, <2>4, <2>5, RowStep
  <1>2. ASSUME NEW j \in Key, NEW lease \in Nat, NEW o \in Outcome, complete_evidence_job(j, lease, o)
        PROVE  JobsInv'
    <2>1. /\ jobs[j].status = "leased" /\ jobs[j].attempts = lease
          /\ Ended(j, lease, o, lease >= MaxAttempts[j[2]])
      BY <1>2 DEF complete_evidence_job
    <2>2. jobs[j] \in JobRow
      BY <2>1, RowOrNone DEF JobsInv, NoJob
    <2>3. PICK s \in {"queued", "completed", "failed"} :
            /\ jobs' = [jobs EXCEPT ![j].status = s, ![j].by = lease, ![j].result = collect_job(o).result]
            /\ s = "queued" => ~(lease >= MaxAttempts[j[2]])
      BY <2>1 DEF Ended
    <2> DEFINE row == [jobs[j] EXCEPT !.status = s, !.by = lease, !.result = collect_job(o).result]
    <2>4. row \in JobRow /\ row.status = s /\ row.by = lease /\ row.attempts = lease
      BY <2>1, <2>2 DEF JobRow
    <2>5. jobs' = [jobs EXCEPT ![j] = row]
      BY <2>2, <2>3 DEF JobsInv, TableType, JobRow
    <2>6. UNCHANGED <<sealed, schedVars>>
      BY <2>1 DEF Ended
    <2>7. MaxAttempts[j[2]] \in Nat
      BY JobsAssumption DEF Key
    <2>8. row.status = "queued" => row.attempts < MaxAttempts[j[2]]
      BY <2>3, <2>4, <2>7
    <2>9. row.status = "completed" => row.by = row.attempts
      BY <2>4
    <2>10. row \in JobRow
      BY <2>4
    <2> HIDE DEF row
    <2> QED
      BY <2>2, <2>5, <2>6, <2>8, <2>9, <2>10, RowStep
  <1>3. ASSUME NEW j \in Key, fail_exhausted_evidence_jobs(j) PROVE JobsInv'
    <2>1. /\ jobs[j].status = "leased"
          /\ jobs' = [jobs EXCEPT ![j].status = "failed", ![j].result = NoJob]
          /\ UNCHANGED <<sealed, schedVars>>
      BY <1>3 DEF fail_exhausted_evidence_jobs, Exhausted
    <2>2. jobs[j] \in JobRow
      BY <2>1, RowOrNone DEF JobsInv, NoJob
    <2> DEFINE row == [jobs[j] EXCEPT !.status = "failed", !.result = NoJob]
    <2>3. row \in JobRow /\ row.status = "failed"
      BY <2>2 DEF JobRow
    <2>4. jobs' = [jobs EXCEPT ![j] = row]
      BY <2>1, <2>2 DEF JobsInv, TableType, JobRow
    <2> HIDE DEF row
    <2> QED
      BY <2>1, <2>2, <2>3, <2>4, RowStep
  <1> QED
    BY <1>1, <1>2, <1>3

\* The steps of the scheduler that leave the job table alone.
LEMMA ScheduleStep ==
    ASSUME JobsInv,
           \/ schedule_once \/ scheduled \/ schedule_failed \/ NextWindow
           \/ \E ps \in Configured : align_enabled_provider_runs(ps)
    PROVE  JobsInv'
  <1>0. jobs' = jobs /\ sealed' = sealed /\ changed \subseteq changed' /\ requests \subseteq requests'
    BY DEF schedule_once, scheduled, schedule_failed, NextWindow, align_enabled_provider_runs
  <1>1. AttemptsInv' /\ SealedInv' /\ (now' \in Nat => TableType')
    BY <1>0 DEF JobsInv, TableType, AttemptsInv, SealedInv, SealedWindowIsWhole, JobsOf
  <1>2. JobsWereAsked'
    BY <1>0 DEF JobsInv, JobsWereAsked, JobsOf
  <1>3. CASE schedule_once
    <2> DEFINE q0 == [window |-> now, due |-> due_provider_keys]
    <2>1. /\ due_provider_keys # {} /\ call = NoCall
          /\ call' = [at |-> "sent", request |-> q0, revision |-> revision]
          /\ requests' = requests \cup {q0}
          /\ UNCHANGED <<now, nextRun, enabled, revision, changed>>
      BY <1>3 DEF schedule_once
    <2>2. q0 \in Request /\ q0.window = now /\ q0.due = due_provider_keys
      <3>1. due_provider_keys \subseteq Provider
        BY DEF JobsInv, EnabledType, due_provider_keys
      <3> QED
        BY <3>1 DEF JobsInv, TableType, Request
    <2>3. call'.request = q0 /\ call' \in CallType
      BY <2>1, <2>2 DEF JobsInv, EnabledType, CallType
    <2> HIDE DEF q0
    <2>4. SchedulerInv'
      BY <2>1, <2>2, <2>3 DEF JobsInv, TableType, SchedulerInv, Request
    <2>5. due_provider_keys' = due_provider_keys
      BY <2>1 DEF due_provider_keys
    <2>6. WindowIsUniform'
      BY <2>1, <2>2, <2>5 DEF JobsInv, WindowIsUniform
    <2> QED
      BY <1>1, <1>2, <2>1, <2>4, <2>6 DEF JobsInv, TableType, EnabledType
  <1>4. CASE scheduled
    <2>1. /\ call # NoCall
          /\ nextRun' = [p \in Provider |->
                 IF call.revision = revision /\ p \in call.request.due
                 THEN call.request.window + 1 ELSE nextRun[p]]
          /\ call' = NoCall
          /\ UNCHANGED <<now, enabled, revision, requests, changed>>
      BY <1>4 DEF scheduled, NoCall
    <2>2. SchedulerInv'
      BY <2>1 DEF JobsInv, SchedulerInv
    <2>3. ASSUME NEW q \in requests, q.window = now, now \notin changed
          PROVE  due_provider_keys' \in {q.due, {}}
      <3>1. call.request \in requests /\ call.request.window = now /\ call.request.due = q.due
        BY <2>1, <2>3 DEF JobsInv, TableType, SchedulerInv, WindowIsUniform, Request
      <3>2. due_provider_keys \in {q.due, {}}
        BY <2>3 DEF JobsInv, WindowIsUniform
      <3>3. due_provider_keys' = IF call.revision = revision THEN due_provider_keys \ q.due
                                 ELSE due_provider_keys
        BY <2>1, <3>1 DEF JobsInv, TableType, EnabledType, due_provider_keys
      <3> QED
        BY <3>2, <3>3
    <2>4. WindowIsUniform'
      BY <2>1, <2>3 DEF JobsInv, WindowIsUniform
    <2> QED
      BY <1>1, <1>2, <2>1, <2>2, <2>4 DEF JobsInv, TableType, EnabledType
  <1>5. CASE schedule_failed
    <2>1. call' = NoCall /\ UNCHANGED <<now, nextRun, enabled, revision, requests, changed>>
      BY <1>5 DEF schedule_failed
    <2> QED
      BY <1>1, <1>2, <2>1
         DEF JobsInv, TableType, EnabledType, SchedulerInv, WindowIsUniform, due_provider_keys
  <1>6. CASE NextWindow
    <2>1. now' = now + 1 /\ UNCHANGED <<nextRun, enabled, revision, call, requests, changed>>
      BY <1>6 DEF NextWindow
    <2>2. SchedulerInv'
      BY <2>1 DEF JobsInv, TableType, SchedulerInv, Request
    <2>3. \A q \in requests : q.window # now'
      BY <2>1 DEF JobsInv, TableType, SchedulerInv, Request
    <2>4. WindowIsUniform'
      BY <2>1, <2>3 DEF JobsInv, WindowIsUniform
    <2> QED
      BY <1>1, <1>2, <2>1, <2>2, <2>4 DEF JobsInv, TableType, EnabledType
  <1>7. ASSUME NEW ps \in Configured, align_enabled_provider_runs(ps) PROVE JobsInv'
    <2>1. /\ enabled' = ps /\ revision' = revision + 1 /\ changed' = changed \cup {now}
          /\ UNCHANGED <<now, call, requests>>
      BY <1>7 DEF align_enabled_provider_runs
    <2>2. SchedulerInv'
      BY <2>1 DEF JobsInv, SchedulerInv
    <2>3. WindowIsUniform'
      BY <2>1 DEF JobsInv, WindowIsUniform
    <2>4. EnabledType'
      BY <2>1, JobsAssumption DEF JobsInv, EnabledType
    <2> QED
      BY <1>1, <1>2, <2>1, <2>2, <2>3, <2>4 DEF JobsInv, TableType
  <1> QED
    BY <1>3, <1>4, <1>5, <1>6, <1>7

\* A request arrives: for the first time, late, or again.
LEMMA QueueStep ==
    ASSUME JobsInv, NEW q \in requests, queue_evidence_jobs(q)
    PROVE  JobsInv'
  <1> DEFINE fresh == [status |-> "queued", attempts |-> 0, by |-> 0, result |-> NoJob]
  <1>1. /\ jobs' = [j \in Key |-> IF j[1] = q.window /\ j[2] \in q.due /\ jobs[j] = NoJob
                                   THEN fresh ELSE jobs[j]]
        /\ UNCHANGED <<sealed, now, nextRun, enabled, revision, requests, changed>>
    BY DEF queue_evidence_jobs, Key
  <1>2. call' # NoCall => call # NoCall /\ call' \in CallType /\ call'.request = call.request
    <2>1. call' = IF call.at = "sent" /\ call.request = q THEN [call EXCEPT !.at = "done"] ELSE call
      BY DEF queue_evidence_jobs
    <2>2. call # NoCall => call \in CallType
      BY DEF JobsInv, SchedulerInv
    <2> QED
      BY <2>1, <2>2 DEF CallType, NoCall
  <1>3. fresh \in JobRow /\ fresh # NoJob
    BY DEF JobRow, NoJob
  <1>4. fresh.status = "queued" /\ fresh.attempts = 0
    OBVIOUS
  <1> HIDE DEF fresh
  <1>5. TableType' /\ EnabledType'
    BY <1>1, <1>3 DEF JobsInv, TableType, EnabledType
  <1>6. AttemptsInv'
    BY <1>1, <1>4, JobsAssumption DEF JobsInv, AttemptsInv, Key
  <1>7. SchedulerInv' /\ WindowIsUniform'
    BY <1>1, <1>2 DEF JobsInv, SchedulerInv, WindowIsUniform, due_provider_keys
  <1>8. \A w \in Window : JobsOf(w)' = IF w = q.window THEN JobsOf(w) \cup q.due ELSE JobsOf(w)
    <2>1. q.due \subseteq Provider
      BY DEF JobsInv, SchedulerInv, Request
    <2> QED
      BY <1>1, <1>3, <2>1 DEF JobsOf, Key
  <1>9. \A w \in Window \ changed : JobsOf(w) # {} => JobsOf(w)' = JobsOf(w)
    BY <1>8 DEF JobsInv, JobsWereAsked, WindowIsUniform
  <1>10. JobsWereAsked'
    <2> SUFFICES ASSUME NEW w \in Window \ changed, JobsOf(w)' # {}
                 PROVE  \E r \in requests : r.window = w /\ JobsOf(w)' = r.due
      BY <1>1 DEF JobsWereAsked
    <2>1. CASE JobsOf(w) # {}
      BY <1>9, <2>1 DEF JobsInv, JobsWereAsked
    <2>2. CASE JobsOf(w) = {}
      BY <1>8, <2>2
    <2> QED
      BY <2>1, <2>2
  <1>11. SealedInv'
    BY <1>1, <1>9 DEF JobsInv, SealedInv, SealedWindowIsWhole
  <1> QED
    BY <1>5, <1>6, <1>7, <1>10, <1>11 DEF JobsInv

\* A window whose jobs have all ended is recorded and its results cleared.
LEMMA SealStep ==
    ASSUME JobsInv, NEW v \in Window, SealWindow(v)
    PROVE  JobsInv'
  <1> DEFINE payload == [at |-> "sealed", providers |-> aggregate_evidence_payload(v),
                         status |-> aggregate_collection_status(aggregate_evidence_payload(v))]
  <1>1. /\ sealed[v] = Unsealed /\ Ready(v)
        /\ sealed' = [sealed EXCEPT ![v] = payload]
        /\ jobs' = [j \in Key |-> IF j[1] = v /\ jobs[j] # NoJob THEN [jobs[j] EXCEPT !.result = NoJob]
                                   ELSE jobs[j]]
        /\ UNCHANGED schedVars
    BY DEF SealWindow, Key
  <1>2. payload # Unsealed /\ DOMAIN payload.providers = JobsOf(v)
    BY DEF Unsealed, aggregate_evidence_payload
  <1> HIDE DEF payload
  <1>3. \A j \in Key : jobs'[j] = jobs[j] \/ (/\ jobs[j] \in JobRow /\ jobs[j] # NoJob
                                               /\ jobs'[j] = [jobs[j] EXCEPT !.result = NoJob])
    BY <1>1, RowOrNone DEF JobsInv
  <1>4. \A j \in Key : /\ jobs'[j] \in JobRow \cup {NoJob}
                       /\ jobs'[j].status = jobs[j].status
                       /\ jobs'[j] # NoJob => jobs'[j].attempts = jobs[j].attempts /\ jobs'[j].by = jobs[j].by
                       /\ jobs'[j] = NoJob <=> jobs[j] = NoJob
    <2> TAKE j \in Key
    <2>1. CASE jobs'[j] = jobs[j]
      BY <2>1 DEF JobsInv, TableType
    <2>2. CASE jobs[j] \in JobRow /\ jobs'[j] = [jobs[j] EXCEPT !.result = NoJob]
      BY <2>2 DEF JobRow, NoJob
    <2> QED
      BY <1>3, <2>1, <2>2
  <1>5. TableType' /\ EnabledType'
    BY <1>1, <1>4 DEF JobsInv, TableType, EnabledType, schedVars
  <1>6. AttemptsInv'
    BY <1>4 DEF JobsInv, AttemptsInv, NoJob
  <1>7. SchedulerInv' /\ WindowIsUniform'
    BY <1>1 DEF JobsInv, SchedulerInv, WindowIsUniform, due_provider_keys, schedVars
  <1>8. \A w \in Window : JobsOf(w)' = JobsOf(w)
    BY <1>4 DEF JobsOf, Key
  <1>9. JobsWereAsked'
    BY <1>1, <1>8 DEF JobsInv, JobsWereAsked, schedVars
  <1>10. SealedInv'
    BY <1>1, <1>2, <1>8 DEF JobsInv, SealedInv, SealedWindowIsWhole, Ready, schedVars
  <1> QED
    BY <1>5, <1>6, <1>7, <1>9, <1>10 DEF JobsInv

LEMMA JobsStep == JobsInv /\ [JobsNext]_jobsVars => JobsInv'
  <1> SUFFICES ASSUME JobsInv, [JobsNext]_jobsVars PROVE JobsInv'
    OBVIOUS
  <1>1. CASE JobsNext
    <2>1. CASE \/ schedule_once \/ scheduled \/ schedule_failed \/ NextWindow
               \/ \E ps \in Configured : align_enabled_provider_runs(ps)
      BY <2>1, ScheduleStep
    <2>2. CASE \E q \in requests : queue_evidence_jobs(q)
      BY <2>2, QueueStep
    <2>3. CASE \/ \E p \in Provider : lease_evidence_job(p)
               \/ \E j \in Key, lease \in Nat, o \in Outcome : complete_evidence_job(j, lease, o)
               \/ \E j \in Key : fail_exhausted_evidence_jobs(j)
      BY <2>3, WorkStep
    <2>4. CASE \E w \in Window : SealWindow(w)
      BY <2>4, SealStep
    <2>5. \A j \in Key : 1 .. MaxAttempts[j[2]] \subseteq Nat
      BY JobsAssumption DEF Key
    <2> QED
      BY <1>1, <2>1, <2>2, <2>3, <2>4, <2>5 DEF JobsNext, Key
  <1>2. CASE UNCHANGED jobsVars
    BY <1>2 DEF JobsInv, TableType, EnabledType, AttemptsInv, SchedulerInv, WindowIsUniform,
                JobsWereAsked, SealedInv, SealedWindowIsWhole, JobsOf, due_provider_keys, jobsVars,
                schedVars
  <1> QED
    BY <1>1, <1>2

LEMMA JobsAlways == JobsSpec => []JobsInv
  BY JobsStart, JobsStep, PTL DEF JobsSpec

\* Whatever requests, leases and reports are lost, late or repeated, a sealed
\* window holds all of its jobs, and no job is left that nobody would lease or
\* end (queue_evidence_jobs, complete_evidence_job, the janitor).
THEOREM EveryWindowSettles == JobsSpec => []WindowsSettle
  <1>1. JobsInv => WindowsSettle
    <2> SUFFICES ASSUME JobsInv PROVE JobNotStranded
      BY DEF JobsInv, SealedInv, WindowsSettle
    <2> SUFFICES ASSUME NEW j \in Key, jobs[j].status \in {"queued", "leased"}
                 PROVE  Available(j) \/ Exhausted(j)
      BY DEF JobNotStranded, Key
    <2>1. jobs[j].attempts \in Nat /\ MaxAttempts[j[2]] \in Nat
      BY JobsAssumption, RowOrNone DEF JobsInv, JobRow, NoJob, Key
    <2> QED
      BY <2>1 DEF JobsInv, AttemptsInv, Available, Exhausted
  <1> QED
    BY JobsAlways, <1>1, PTL

\* A job that has ended keeps its end, its result is the one of its last lease,
\* and a sealed window keeps its payload, although any earlier lease's report
\* may still arrive (complete_evidence_job, SealWindow).
THEOREM NothingIsAcceptedTwice == JobsSpec => ResultsAreFinal
  <1> DEFINE Final ==
         /\ \A j \in Window \X Provider :
              /\ jobs[j].status \in {"completed", "failed"} => jobs'[j].status = jobs[j].status
              /\ jobs'[j].status = "completed" => jobs'[j].by = jobs'[j].attempts
         /\ \A w \in Window : sealed[w] # Unsealed => sealed'[w] = sealed[w]
  <1>1. JobsInv /\ JobsInv' /\ [JobsNext]_jobsVars => [Final]_jobsVars
    <2> SUFFICES ASSUME JobsInv, JobsInv', JobsNext PROVE Final
      OBVIOUS
    <2>1. \A j \in Key : jobs'[j].status = "completed" => jobs'[j].by = jobs'[j].attempts
      BY DEF JobsInv, AttemptsInv
    <2>2. \A w \in Window : sealed[w] # Unsealed => sealed'[w] = sealed[w]
      <3>1. CASE \E v \in Window : SealWindow(v)
        BY <3>1 DEF SealWindow, JobsInv, SealedInv
      <3>2. CASE sealed' = sealed
        BY <3>2
      <3> QED
        BY <3>1, <3>2 DEF JobsNext, schedule_once, scheduled, schedule_failed, NextWindow,
               queue_evidence_jobs, align_enabled_provider_runs, lease_evidence_job,
               complete_evidence_job, Ended, fail_exhausted_evidence_jobs
    <2>3. ASSUME NEW j \in Key, jobs[j].status \in {"completed", "failed"}
          PROVE  jobs'[j].status = jobs[j].status
      <3>0. jobs[j] \in JobRow /\ jobs[j] # NoJob
        BY <2>3, RowOrNone DEF JobsInv, NoJob
      <3>1. CASE jobs' = jobs
        BY <3>1
      <3>2. ASSUME NEW q \in requests, queue_evidence_jobs(q) PROVE jobs'[j].status = jobs[j].status
        BY <3>0, <3>2 DEF queue_evidence_jobs, Key
      <3>3. ASSUME NEW p \in Provider, lease_evidence_job(p) PROVE jobs'[j] = jobs[j]
        <4>1. PICK w \in Window :
                /\ Available(<<w, p>>)
                /\ jobs' = [jobs EXCEPT ![<<w, p>>].status = "leased", ![<<w, p>>].attempts = @ + 1]
          BY <3>3 DEF lease_evidence_job
        <4>2. j # <<w, p>>
          BY <2>3, <4>1 DEF Available
        <4> QED
          BY <4>1, <4>2 DEF JobsInv, TableType
      <3>4. ASSUME NEW k \in Key, \/ fail_exhausted_evidence_jobs(k)
                                 \/ \E lease \in 1 .. MaxAttempts[k[2]], o \in Outcome :
                                       complete_evidence_job(k, lease, o)
            PROVE  jobs'[j] = jobs[j]
        <4>1. jobs[k].status = "leased" /\ k # j
          BY <2>3, <3>4 DEF fail_exhausted_evidence_jobs, Exhausted, complete_evidence_job
        <4> QED
          BY <3>4, <4>1 DEF fail_exhausted_evidence_jobs, complete_evidence_job, Ended, JobsInv,
                            TableType
      <3>5. ASSUME NEW v \in Window, SealWindow(v) PROVE jobs'[j].status = jobs[j].status
        BY <3>0, <3>5 DEF SealWindow, Key, JobRow
      <3> QED
        BY <3>1, <3>2, <3>3, <3>4, <3>5
           DEF JobsNext, schedule_once, scheduled, schedule_failed, NextWindow,
               align_enabled_provider_runs, Key
    <2> QED
      BY <2>1, <2>2, <2>3 DEF Key
  <1>2. JobsSpec => []JobsInv
    BY JobsAlways
  <1>3. JobsSpec => [][Final]_jobsVars
    BY <1>1, <1>2, PTL DEF JobsSpec
  <1> QED
    BY <1>3 DEF ResultsAreFinal
===============================================================================
