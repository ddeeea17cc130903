----------------------- MODULE RecoveryLifecycleProofs -----------------------
(***************************************************************************)
(* Proofs about the recovery plan: what is deployed was tracked and         *)
(* merged, what is verified was deployed, what failed can be retried, and   *)
(* the row implements RecoveryOutcome, for any number of selections, pull   *)
(* requests, pushes, retries and concurrent requests.                       *)
(***************************************************************************)
EXTENDS RecoveryInvariantProofs

USE RecoveryAssumption

-----------------------------------------------------------------------------
(* Deployment, verification, selection and retry. *)

\* The report of a run that has ended.
LEMMA ReportTyped ==
  ASSUME NEW r \in Run, NEW state \in {"succeeded", "failed"}, NEW R, R[r] = state, NEW P
  PROVE  /\ RunResult(r, state) \in Event /\ EventRight(RunResult(r, state), P, R)
         /\ \A p \in Pull : ~Carries(RunResult(r, state), p)
  <1>1. CASE state = "succeeded"
    BY <1>1 DEF RunResult, Event, EventRight, Carries
  <1>2. CASE state = "failed"
    BY <1>2 DEF RunResult, Event, EventRight, Carries
  <1> QED
    BY <1>1, <1>2

LEMMA RequestRunMeans ==
  ASSUME RecoveryInv, NEW r \in Run, NEW E \in SUBSET Event, RequestRun(r, E),
         \A e \in E : e.kind = "pr_merged"
  PROVE  /\ run' \in [Run -> {"absent", "requested", "succeeded", "failed"}]
         /\ \A x \in Run : /\ run[x] \in {"succeeded", "failed"} => run'[x] = run[x]
                           /\ run[x] # "absent" => run'[x] # "absent"
                           /\ x # r => run'[x] = run[x]
         /\ run'[r] # "absent" /\ events' \subseteq Event
         /\ \A e \in events' : e \in events \/
               (EventRight(e, pulls, run') /\ \A p \in Pull : ~Carries(e, p))
  <1>1. run \in [Run -> {"absent", "requested", "succeeded", "failed"}] /\ events \subseteq Event
    BY DEF RecoveryInv, TypeOK
  <1>2. run' = [run EXCEPT ![r] = IF run[r] = "absent" THEN "requested" ELSE run[r]]
    BY DEF RequestRun
  <1>3. /\ run' \in [Run -> {"absent", "requested", "succeeded", "failed"}]
        /\ \A x \in Run : x # r => run'[x] = run[x]
        /\ run'[r] = IF run[r] = "absent" THEN "requested" ELSE run[r]
    BY <1>1, <1>2
  <1>4. ASSUME NEW e \in events'
        PROVE  e \in events \/ (e \in Event /\ EventRight(e, pulls, run') /\ \A p \in Pull : ~Carries(e, p))
    <2>1. CASE e \in E
      BY <2>1, QuietEvent, Zenon
    <2>2. CASE e \notin events /\ e \notin E
      <3>1. run[r] \in {"succeeded", "failed"} /\ e = RunResult(r, run[r])
        BY <2>2 DEF RequestRun
      <3>2. run'[r] = run[r]
        BY <1>3, <3>1
      <3> QED
        BY <3>1, <3>2, ReportTyped
    <2> QED
      BY <2>1, <2>2
  <1> QED
    BY <1>1, <1>3, <1>4

LEMMA RunEndsStep == ASSUME RecoveryInv, NEW r \in Run, RunEnds(r) PROVE RecoveryInv'
  <1>1. /\ run \in [Run -> {"absent", "requested", "succeeded", "failed"}] /\ events \subseteq Event
        /\ run[r] = "requested" /\ UNCHANGED <<row, attempts, approval, authority, tasks, pulls>>
    BY DEF RunEnds, RecoveryInv, TypeOK
  <1>2. PICK state \in {"succeeded", "failed"} :
           run' = [run EXCEPT ![r] = state] /\ events' = events \cup {RunResult(r, state)}
    BY Zenon DEF RunEnds
  <1>3. /\ run' \in [Run -> {"absent", "requested", "succeeded", "failed"}] /\ run'[r] = state
        /\ \A x \in Run : x # r => run'[x] = run[x]
    BY <1>1, <1>2
  <1>4. PICK e : e = RunResult(r, state)
    OBVIOUS
  <1>5. e \in Event /\ EventRight(e, pulls, run') /\ \A p \in Pull : ~Carries(e, p)
    BY <1>3, <1>4, ReportTyped
  <1>6. events' = events \cup {e}
    BY <1>2, <1>4
  <1>7. TypeOK' /\ Forward
    BY <1>1, <1>3, <1>5, <1>6 DEF RecoveryInv, TypeOK, Forward
  <1>8. OneCarrier(events', tasks')
    BY <1>1, <1>5, <1>6 DEF RecoveryInv, OneCarrier
  <1>9. RowRight(row', pulls', run', attempts')
    BY <1>1, <1>7, RowStays DEF RecoveryInv, TypeOK
  <1>10. ASSUME NEW p \in Pull, run'[<<p, 0>>] # run[<<p, 0>>]
         PROVE  /\ pulls'[p].state = "merged"
                /\ \A x \in events : ~Carries(x, p)
                /\ \A t \in tasks : ~Carries(t.evt, p)
    <2>1. <<p, 0>> = r
      BY <1>3, <1>10, FirstRun
    <2>2. run[<<p, 0>>] = "requested"
      BY <1>1, <2>1
    <2> QED
      BY <1>1, <2>2 DEF RecoveryInv, EventRight, TaskRight
  <1>11. SlotsLeft(tasks', attempts')
    BY <1>1 DEF RecoveryInv
  <1>12. \A x \in events' : x \in events \/ EventRight(x, pulls', run')
    BY <1>1, <1>5, <1>6
  <1> QED
    BY <1>1, <1>7, <1>8, <1>9, <1>10, <1>11, <1>12, Moves

LEMMA WebhookMergesStep ==
  ASSUME RecoveryInv, NEW t \in tasks, WebhookMerges(t) PROVE RecoveryInv'
  <1>1. /\ t.evt.kind = "merge" /\ tasks' = tasks \ {t} /\ t.seen.status = "pr_open"
        /\ UNCHANGED <<attempts, approval, authority, pulls>>
        /\ t.seen.lc.pull = t.evt.pull /\ t.seen.lc.head = t.evt.head
    BY TaskTyped DEF WebhookMerges, TaskRight
  <1>2. CASE RejectPull(t) /\ UNCHANGED <<events, run>>
    BY <1>1, <1>2, RejectMeans, RowWriteStep
  <1>3. CASE UNCHANGED <<row, events, run>>
    BY <1>1, <1>3, TaskTyped, RowWriteStep
  <1> DEFINE r == <<t.evt.pull, 0>>
             lc == [t.seen.lc EXCEPT !.run = r]
             merged == [kind |-> "pr_merged", run |-> r]
  <1>4. CASE /\ ~t.seen.lc.blocked /\ row.status = "pr_open"
             /\ Cas("pr_open", "deploy_pending", row.action, lc) /\ RequestRun(r, {merged})
    <2>1. t.evt.pull \in Pull /\ r \in Run
      BY <1>1, TaskTyped, EventFields, FirstRun
    <2>2. Carries(t.evt, t.evt.pull)
      BY <1>1 DEF Carries
    <2>3. /\ pulls[t.evt.pull].state = "merged" /\ pulls[t.evt.pull].head = t.evt.head
          /\ \A p \in Pull : p # t.evt.pull => <<p, 0>> # r
      BY <2>1, <2>2, TaskTyped DEF TaskRight, EventRight
    <2>4. /\ lc \in Lifecycle /\ lc.run = r /\ lc.pull = t.evt.pull /\ lc.head = t.evt.head
          /\ lc.blocked = t.seen.lc.blocked
          /\ lc.attempt = t.seen.lc.attempt /\ lc.number = t.seen.lc.number
      BY <1>1, <2>1, TaskTyped DEF Lifecycle
    <2>5. merged \in Event /\ merged.kind = "pr_merged"
      BY <2>1 DEF Event
    <2>6. r # None /\ r[1] = t.evt.pull
      BY <2>1, NoneIsNoRun
    <2> HIDE DEF lc, merged
    <2>7. {merged} \in SUBSET Event /\ \A e \in {merged} : e.kind = "pr_merged"
      BY <2>5
    <2>8. /\ run' \in [Run -> {"absent", "requested", "succeeded", "failed"}]
          /\ \A x \in Run : /\ run[x] \in {"succeeded", "failed"} => run'[x] = run[x]
                            /\ run[x] # "absent" => run'[x] # "absent"
                            /\ x # r => run'[x] = run[x]
          /\ run'[r] # "absent" /\ events' \subseteq Event
          /\ \A e \in events' : e \in events \/
                (EventRight(e, pulls, run') /\ \A p \in Pull : ~Carries(e, p))
      BY <1>4, <2>1, <2>7, RequestRunMeans
    <2>9. \A p \in Pull : run'[<<p, 0>>] = run[<<p, 0>>] \/ Carries(t.evt, p)
      BY <2>2, <2>3, <2>8, FirstRun, Zenon
    <2>10. RowRight([status |-> "deploy_pending", action |-> row.action, lc |-> lc], pulls, run', attempts)
      BY <1>4, <2>3, <2>4, <2>6, <2>8, TaskTyped, ZenonT(40) DEF RowRight
    <2>11. row' \in Row /\ RowRight(row', pulls, run', attempts)
      BY <1>4, <2>4, <2>10, TaskTyped, CasMeans, ZenonT(40) DEF Status
    <2> QED
      BY <1>1, <1>4, <2>8, <2>9, <2>11, WriteStep, ZenonT(40) DEF RecoveryInv, TypeOK
  <1> QED
    BY <1>2, <1>3, <1>4 DEF WebhookMerges, Cas

LEMMA StartVerificationStep ==
  ASSUME RecoveryInv, NEW t \in tasks, StartVerification(t) PROVE RecoveryInv'
  <1>1. /\ t.evt.kind \in {"run_completed", "pr_merged"} /\ tasks' = tasks \ {t}
        /\ UNCHANGED <<attempts, approval, authority, events, pulls, run>>
    BY DEF StartVerification
  <1>2. CASE run[t.evt.run] = "succeeded"
    <2>1. /\ t.seen.lc.run = t.evt.run /\ t.seen.status = "deploy_pending"
          /\ Cas("deploy_pending", "verification_pending", row.action, t.seen.lc)
      BY <1>1, <1>2, TaskTyped DEF TaskRight, StartVerification
    <2>2. row.status = "deploy_pending" =>
             RowRight([status |-> "verification_pending", action |-> row.action, lc |-> t.seen.lc],
                      pulls, run, attempts)
      BY <1>2, <2>1, TaskTyped, Zenon DEF RowRight
    <2>3. row' \in Row /\ RowRight(row', pulls, run, attempts) /\ (row' = row \/ row.status = "deploy_pending")
      BY <2>1, <2>2, TaskTyped, CasMeans, Zenon DEF Status
    <2> QED
      BY <1>1, <2>3, RowWriteStep
  <1>3. CASE run[t.evt.run] # "succeeded"
    BY <1>1, <1>3, TaskTyped, RowWriteStep DEF StartVerification
  <1> QED
    BY <1>2, <1>3

LEMMA DeployFailedStep ==
  ASSUME RecoveryInv, NEW t \in tasks, OnDeployFailed(t) PROVE RecoveryInv'
  <1> DEFINE lc == [t.seen.lc EXCEPT !.failure = "deploy"]
  <1>1. /\ t.evt.kind = "run_failed" /\ tasks' = tasks \ {t}
        /\ UNCHANGED <<attempts, approval, authority, events, pulls, run>>
        /\ Cas("deploy_pending", "failed", row.action, lc)
    BY DEF OnDeployFailed
  <1>2. /\ t.seen.lc.run = t.evt.run /\ t.seen.status = "deploy_pending" /\ run[t.evt.run] = "failed"
    BY <1>1, TaskTyped DEF TaskRight, EventRight
  <1>3. /\ lc \in Lifecycle /\ lc.failure = "deploy" /\ lc.run = t.seen.lc.run /\ lc.pull = t.seen.lc.pull
        /\ lc.head = t.seen.lc.head /\ lc.blocked = t.seen.lc.blocked
        /\ lc.attempt = t.seen.lc.attempt /\ lc.number = t.seen.lc.number
    BY TaskTyped, WithFailure, Zenon
  <1> HIDE DEF lc
  <1>4. row.status = "deploy_pending" =>
           RowRight([status |-> "failed", action |-> row.action, lc |-> lc], pulls, run, attempts)
    BY <1>2, <1>3, TaskTyped, ZenonT(40) DEF RowRight
  <1>5. row' \in Row /\ RowRight(row', pulls, run, attempts) /\ (row' = row \/ row.status = "deploy_pending")
    BY <1>1, <1>3, <1>4, TaskTyped, CasMeans, ZenonT(40) DEF Status
  <1> QED
    BY <1>1, <1>5, RowWriteStep

LEMMA EvidenceStep ==
  ASSUME RecoveryInv, NEW t \in tasks, OnEvidence(t) PROVE RecoveryInv'
  <1>1. /\ t.evt.kind = "evidence" /\ tasks' = tasks \ {t}
        /\ UNCHANGED <<attempts, approval, authority, events, pulls, run>>
    BY DEF OnEvidence
  <1>2. t.seen = row /\ row.status = "verification_pending"
    BY <1>1, TaskTyped DEF TaskRight
  <1>3. ASSUME NEW status \in {"verification_pending", "completed", "failed"},
               NEW lc \in Lifecycle, Cas("verification_pending", status, row.action, lc),
               lc.run = row.lc.run, lc.pull = row.lc.pull, lc.head = row.lc.head,
               lc.blocked = row.lc.blocked, lc.attempt = row.lc.attempt, lc.number = row.lc.number,
               status = "failed" => lc.failure = "expired"
        PROVE  RecoveryInv'
    <2>1. RowRight([status |-> status, action |-> row.action, lc |-> lc], pulls, run, attempts)
      BY <1>2, <1>3, TaskTyped DEF RowRight
    <2>2. row' \in Row /\ RowRight(row', pulls, run, attempts)
      <3>1. status \in Status /\ row.action \in Action \cup {None}
        BY TaskTyped DEF Status
      <3> QED
        BY <1>3, <2>1, <3>1, CasMeans
    <2> QED
      BY <1>1, <2>2, RowWriteStep, SMTT(40)
  <1>4. CASE Cas("verification_pending", "verification_pending", row.action, t.seen.lc)
    BY <1>2, <1>3, <1>4, TaskTyped
  <1>5. CASE Cas("verification_pending", "completed", row.action, [t.seen.lc EXCEPT !.failure = "none"])
    <2> DEFINE lc == [t.seen.lc EXCEPT !.failure = "none"]
    <2>1. /\ lc \in Lifecycle /\ lc.failure = "none" /\ lc.run = t.seen.lc.run /\ lc.pull = t.seen.lc.pull
          /\ lc.head = t.seen.lc.head /\ lc.blocked = t.seen.lc.blocked
          /\ lc.attempt = t.seen.lc.attempt /\ lc.number = t.seen.lc.number
      BY TaskTyped, WithFailure, Zenon
    <2> HIDE DEF lc
    <2>2. /\ lc \in Lifecycle /\ lc.failure = "none" /\ lc.run = row.lc.run /\ lc.pull = row.lc.pull
          /\ lc.head = row.lc.head /\ lc.blocked = row.lc.blocked
          /\ lc.attempt = row.lc.attempt /\ lc.number = row.lc.number
      BY <1>2, <2>1
    <2> QED
      BY <1>3, <1>5, <2>2, Zenon DEF lc
  <1>6. CASE Cas("verification_pending", "failed", row.action, [t.seen.lc EXCEPT !.failure = "expired"])
    <2> DEFINE lc == [t.seen.lc EXCEPT !.failure = "expired"]
    <2>1. /\ lc \in Lifecycle /\ lc.failure = "expired" /\ lc.run = t.seen.lc.run /\ lc.pull = t.seen.lc.pull
          /\ lc.head = t.seen.lc.head /\ lc.blocked = t.seen.lc.blocked
          /\ lc.attempt = t.seen.lc.attempt /\ lc.number = t.seen.lc.number
      BY TaskTyped, WithFailure, Zenon
    <2> HIDE DEF lc
    <2>2. /\ lc \in Lifecycle /\ lc.failure = "expired" /\ lc.run = row.lc.run /\ lc.pull = row.lc.pull
          /\ lc.head = row.lc.head /\ lc.blocked = row.lc.blocked
          /\ lc.attempt = row.lc.attempt /\ lc.number = row.lc.number
      BY <1>2, <2>1
    <2> QED
      BY <1>3, <1>6, <2>2, Zenon DEF lc
  <1> QED
    BY <1>4, <1>5, <1>6 DEF OnEvidence

LEMMA GrantMeans ==
  ASSUME RecoveryInv, NEW i, NEW c \in Commit, Grant(i, c)
  PROVE  approval' \in [Approval -> Commit \cup {None}]
  BY Zenon DEF RecoveryInv, TypeOK, Grant

LEMMA SelectedMeans ==
  ASSUME RecoveryInv, NEW t \in Slots(tasks), NEW a \in Action, NEW i \in Approval,
         NEW number \in 0..MaxAttempt, number <= attempts + 1, Selected(a, i, number)
  PROVE  /\ row' \in Row /\ attempts' = attempts + 1 /\ events' \subseteq Event
         /\ RowRight(row', pulls, run, attempts')
         /\ \A e \in events' : e \in events \/
               (EventRight(e, pulls, run) /\ \A p \in Pull : ~Carries(e, p))
  <1>1. attempts \in Nat /\ attempts + 1 <= MaxAttempt /\ events \subseteq Event
    <2>1. attempts \in Nat /\ events \subseteq Event
      BY DEF RecoveryInv, TypeOK
    <2> QED
      BY <2>1, SlotsUse, Zenon DEF RecoveryInv
  <1>2. attempts + 1 \in 1..MaxAttempt /\ attempts + 1 \in 0..MaxAttempt /\ attempts' = attempts + 1
    BY <1>1 DEF Selected
  <1> DEFINE lc == [NoLifecycle EXCEPT !.attempt = attempts + 1, !.number = number]
             e == [kind |-> "selected", approval |-> i, attempt |-> attempts + 1]
  <1>3. lc \in Lifecycle /\ lc.attempt = attempts + 1 /\ lc.number = number /\ lc.run = None
    BY <1>2, NoLifecycleTyped, Zenon DEF NoLifecycle, Lifecycle
  <1>4. e \in Event /\ e.kind = "selected"
    BY <1>2 DEF Event
  <1>5. row' = [status |-> "selected", action |-> a, lc |-> lc] /\ events' = events \cup {e}
    BY DEF Selected
  <1> HIDE DEF lc, e
  <1>6. EventRight(e, pulls, run) /\ \A p \in Pull : ~Carries(e, p)
    BY <1>4, QuietEvent
  <1>7. row' \in Row
    BY <1>3, <1>5 DEF Row, Status
  <1>8. RowRight(row', pulls, run, attempts')
    BY <1>1, <1>2, <1>3, <1>5 DEF RowRight
  <1> QED
    BY <1>1, <1>2, <1>4, <1>5, <1>6, <1>7, <1>8

LEMMA SelectStep == ASSUME RecoveryInv, NEW t \in tasks, Select(t) PROVE RecoveryInv'
  <1>1. t.evt.kind = "select" /\ tasks' = tasks \ {t} /\ UNCHANGED <<authority, pulls, run>>
    BY DEF Select
  <1>2. t \in Slots(tasks) /\ t.evt.action \in Action /\ t.evt.commit \in Commit
    BY <1>1, TaskTyped, EventFields DEF Slots
  <1>3. CASE row.status = "selection_requested"
    <2> DEFINE i == <<t.evt.action, 0>>
    <2>1. i \in Approval /\ row.lc.number \in Nat /\ row.lc.number <= attempts
      <3>1. 0 \in 0..MaxAttempt
        OBVIOUS
      <3>2. i \in Approval
        BY <1>2, <3>1 DEF Approval
      <3>3. row.lc.number \in Nat
        BY TaskTyped DEF Row, Lifecycle
      <3>4. row.lc.number <= attempts
        BY TaskTyped, Zenon DEF RowRight
      <3> QED
        BY <3>2, <3>3, <3>4
    <2>2. attempts + 1 <= MaxAttempt
      BY <1>2, TaskTyped, SlotsUse, Zenon DEF RecoveryInv
    <2>3. row.lc.number + 1 \in 0..MaxAttempt /\ row.lc.number + 1 <= attempts + 1
      BY <2>1, <2>2, TaskTyped
    <2>4. Selected(t.evt.action, i, row.lc.number + 1) /\ Grant(i, t.evt.commit)
      BY <1>3 DEF Select
    <2> HIDE DEF i
    <2>5. /\ row' \in Row /\ attempts' = attempts + 1 /\ events' \subseteq Event
          /\ RowRight(row', pulls, run, attempts')
          /\ \A e \in events' : e \in events \/
                (EventRight(e, pulls, run) /\ \A p \in Pull : ~Carries(e, p))
      BY <1>2, <2>1, <2>3, <2>4, SelectedMeans
    <2>6. approval' \in [Approval -> Commit \cup {None}]
      BY <1>2, <2>4, GrantMeans
    <2> QED
      BY <1>1, <1>2, <1>3, <2>5, <2>6, WriteStep, Zenon DEF RecoveryInv, TypeOK
  <1>4. CASE row.status # "selection_requested"
    BY <1>1, <1>4, TaskTyped, RowWriteStep DEF Select
  <1> QED
    BY <1>3, <1>4

LEMMA RetryStep == ASSUME RecoveryInv, NEW t \in tasks, Retry(t) PROVE RecoveryInv'
  <1>1. t.evt.kind = "retry" /\ tasks' = tasks \ {t} /\ UNCHANGED <<authority, pulls>>
    BY DEF Retry
  <1>2. t.seen.status = "failed" /\ t.evt.commit \in Commit
    BY <1>1, TaskTyped, EventFields DEF TaskRight
  <1>3. CASE t.seen.lc.failure = "safe_pr" /\ RetryPull(t)
    <2> DEFINE n == t.seen.lc.number + 1
               i == <<t.seen.action, n>>
    <2>1. t \in Slots(tasks) /\ t.seen.action \in Action
      BY <1>1, <1>2, <1>3, TaskTyped, Zenon DEF Slots, RowRight, Row
    <2>2. attempts + 1 <= MaxAttempt
      BY <2>1, TaskTyped, SlotsUse, Zenon DEF RecoveryInv
    <2>3. t.seen.lc.number \in Nat /\ t.seen.lc.number <= attempts
      <3>1. t.seen.lc.number \in Nat
        BY TaskTyped
      <3> QED
        BY <3>1, TaskTyped, Zenon DEF RowRight
    <2>4. n \in 0..MaxAttempt /\ n <= attempts + 1
      BY <2>2, <2>3, TaskTyped
    <2>5. i \in Approval
      BY <2>1, <2>4 DEF Approval
    <2>6. /\ Grant(i, t.evt.commit) /\ UNCHANGED run
          /\ row.status = "failed" => Selected(row.action, i, n)
          /\ row.status # "failed" => UNCHANGED <<row, attempts, events>>
      BY <1>3 DEF RetryPull
    <2> HIDE DEF n, i
    <2>7. approval' \in [Approval -> Commit \cup {None}]
      BY <1>2, <2>6, GrantMeans
    <2>8. CASE row.status = "failed"
      <3>1. row.action \in Action
        BY <2>8, TaskTyped, ZenonT(40) DEF RowRight, Row
      <3>2. /\ row' \in Row /\ attempts' = attempts + 1 /\ events' \subseteq Event
            /\ RowRight(row', pulls, run, attempts')
            /\ \A e \in events' : e \in events \/
                  (EventRight(e, pulls, run) /\ \A p \in Pull : ~Carries(e, p))
        BY <2>1, <2>4, <2>5, <2>6, <2>8, <3>1, SelectedMeans
      <3> QED
        BY <1>1, <2>1, <2>6, <2>7, <2>8, <3>2, WriteStep, ZenonT(40) DEF RecoveryInv, TypeOK
    <2>9. CASE row.status # "failed"
      BY <1>1, <2>6, <2>7, <2>9, TaskTyped, WriteStep, ZenonT(40) DEF RecoveryInv, TypeOK
    <2> QED
      BY <2>8, <2>9
  <1>4. CASE t.seen.lc.failure = "deploy" /\ RetryDeploy(t)
    <2> DEFINE r == <<t.seen.lc.run[1], t.seen.lc.run[2] + 1>>
               lc == [t.seen.lc EXCEPT !.run = r, !.failure = "none"]
    <2>1. t.seen.lc.run \in Run /\ t.seen.lc.run[2] < MaxRetry /\ t.seen.lc.run # None
      BY <1>1, <1>2, <1>4, TaskTyped, Zenon DEF TaskRight, RowRight, Lifecycle
    <2>2. t.seen.lc.run[1] \in Pull /\ t.seen.lc.run[2] \in 0..MaxRetry
      BY <2>1 DEF Run
    <2>3. t.seen.lc.run[2] + 1 \in 0..MaxRetry /\ t.seen.lc.run[2] + 1 # 0
      BY <2>1, <2>2
    <2>4. r \in Run /\ r # None /\ r[1] = t.seen.lc.run[1] /\ \A p \in Pull : <<p, 0>> # r
      <3>1. r \in Run /\ r[1] = t.seen.lc.run[1] /\ \A p \in Pull : <<p, 0>> # r
        BY <2>2, <2>3 DEF Run
      <3> QED
        BY <3>1, NoneIsNoRun
    <2>5. /\ Cas("failed", "deploy_pending", row.action, lc) /\ UNCHANGED <<attempts, approval>>
          /\ row.status = "failed" => RequestRun(r, {})
          /\ row.status # "failed" => UNCHANGED <<events, run>>
      BY <1>4 DEF RetryDeploy
    <2>6. CASE row.status # "failed"
      BY <1>1, <2>5, <2>6, TaskTyped, RowWriteStep DEF Cas
    <2>7. CASE row.status = "failed"
      <3>1. /\ lc \in Lifecycle /\ lc.run = r /\ lc.pull = t.seen.lc.pull /\ lc.head = t.seen.lc.head
            /\ lc.blocked = t.seen.lc.blocked
            /\ lc.attempt = t.seen.lc.attempt /\ lc.number = t.seen.lc.number
        BY <2>4, TaskTyped, Zenon DEF Lifecycle
      <3> HIDE DEF r, lc
      <3>2. /\ run' \in [Run -> {"absent", "requested", "succeeded", "failed"}]
            /\ \A x \in Run : /\ run[x] \in {"succeeded", "failed"} => run'[x] = run[x]
                              /\ run[x] # "absent" => run'[x] # "absent"
                              /\ x # r => run'[x] = run[x]
            /\ run'[r] # "absent" /\ events' \subseteq Event
            /\ \A e \in events' : e \in events \/
                  (EventRight(e, pulls, run') /\ \A p \in Pull : ~Carries(e, p))
        BY <2>4, <2>5, <2>7, RequestRunMeans
      <3>3. \A p \in Pull : run'[<<p, 0>>] = run[<<p, 0>>]
        BY <2>4, <3>2, FirstRun, Zenon
      <3>4. /\ t.seen.lc.pull = t.seen.lc.run[1] /\ t.seen.lc.pull \in Pull /\ ~t.seen.lc.blocked
            /\ pulls[t.seen.lc.pull].state = "merged" /\ pulls[t.seen.lc.pull].head = t.seen.lc.head
            /\ run[<<t.seen.lc.pull, 0>>] # "absent"
        BY <2>1, <2>2, TaskTyped, Zenon DEF RowRight
      <3>5. RowRight([status |-> "deploy_pending", action |-> row.action, lc |-> lc], pulls, run', attempts)
        BY <2>4, <2>7, <3>1, <3>3, <3>4, TaskTyped, Zenon DEF RowRight
      <3>6. row' \in Row /\ RowRight(row', pulls, run', attempts)
        BY <2>5, <2>7, <3>1, <3>5, TaskTyped, CasMeans, Zenon DEF Status
      <3> QED
        BY <1>1, <2>5, <2>7, <3>2, <3>3, <3>6, WriteStep, ZenonT(40) DEF RecoveryInv, TypeOK
    <2> QED
      BY <2>6, <2>7
  <1>5. CASE t.seen.lc.failure = "expired" /\ RetryVerification(t)
    <2> DEFINE lc == [t.seen.lc EXCEPT !.failure = "none"]
    <2>1. /\ lc \in Lifecycle /\ lc.failure = "none" /\ lc.run = t.seen.lc.run /\ lc.pull = t.seen.lc.pull
          /\ lc.head = t.seen.lc.head /\ lc.blocked = t.seen.lc.blocked
          /\ lc.attempt = t.seen.lc.attempt /\ lc.number = t.seen.lc.number
      BY TaskTyped, WithFailure, Zenon
    <2>2. /\ Cas("failed", "verification_pending", row.action, lc)
          /\ UNCHANGED <<attempts, approval, events, run>>
      BY <1>5 DEF RetryVerification
    <2>3. t.seen.lc.run # None /\ run[t.seen.lc.run] = "succeeded"
      BY <1>2, <1>5, TaskTyped, Zenon DEF RowRight
    <2> HIDE DEF lc
    <2>4. row.status = "failed" =>
             RowRight([status |-> "verification_pending", action |-> row.action, lc |-> lc],
                      pulls, run, attempts)
      BY <2>1, <2>3, TaskTyped, ZenonT(40) DEF RowRight
    <2>5. row' \in Row /\ RowRight(row', pulls, run, attempts) /\ (row' = row \/ row.status = "failed")
      BY <2>1, <2>2, <2>4, TaskTyped, CasMeans, Zenon DEF Status
    <2> QED
      BY <1>1, <2>2, <2>5, RowWriteStep, Zenon
  <1> QED
    BY <1>3, <1>4, <1>5 DEF Retry

-----------------------------------------------------------------------------
(* The invariant holds. *)

LEMMA RecoveryStep == RecoveryInv /\ [Next]_vars => RecoveryInv'
  <1> SUFFICES ASSUME RecoveryInv, [Next]_vars PROVE RecoveryInv'
    OBVIOUS
  <1>1. CASE UNCHANGED vars
    <2>1. UNCHANGED <<row, attempts, approval, authority, events, tasks, pulls, run>>
      BY <1>1 DEF vars
    <2> QED
      BY <2>1 DEF RecoveryInv, TypeOK
  <1>2. ASSUME NEW a \in Action, SelectRequest(a) \/ PreflightFails(a) PROVE RecoveryInv'
    BY <1>2, SelectRequestStep, PreflightStep
  <1>3. ASSUME NEW e \in events, Worker(e) \/ WebhookRead(e) \/ \E p \in Pull : PushOntoPull(e, p)
        PROVE  RecoveryInv'
    BY <1>3, DispatchStep, ActionRequiredStep, CreatePullStep, FeedbackReadStep, WebhookReadStep, PushStep
       DEF Worker
  <1>4. ASSUME NEW t \in tasks, Finish(t) PROVE RecoveryInv'
    BY <1>4, SelectStep, RetryStep, WebhookRejectsStep, WebhookReadExactStep, WebhookMergesStep,
       SafePrCreatedStep, SafePrFailedStep, StartVerificationStep, DeployFailedStep, EvidenceStep
       DEF Finish
  <1> QED
    BY <1>1, <1>2, <1>3, <1>4, ReplanStep, RetryRequestStep, EvidenceReadStep, AuthorityStep,
       GitHubStep, RunEndsStep DEF Next

LEMMA RecoveryInvariant == Spec => []RecoveryInv
  BY RecoveryStarts, RecoveryStep, PTL DEF Spec

\* The properties that the runs check follow from it.
LEMMA InvariantMeans ==
  ASSUME RecoveryInv PROVE MergedAsTracked /\ VerifiedWasDeployed /\ FailedIsRetryable
  <1>1. row \in Row /\ RowRight(row, pulls, run, attempts)
    BY DEF RecoveryInv, TypeOK
  <1>2. MergedAsTracked
    BY <1>1 DEF RowRight, MergedAsTracked
  <1>3. VerifiedWasDeployed
    BY <1>1 DEF RowRight, VerifiedWasDeployed
  <1>4. FailedIsRetryable
    BY <1>1 DEF RowRight, FailedIsRetryable, Retryable
  <1> QED
    BY <1>2, <1>3, <1>4

\* Every variable of the recovery plan keeps its type.
THEOREM RecoveryTyped == Spec => []TypeOK
  <1>1. RecoveryInv => TypeOK
    BY DEF RecoveryInv
  <1> QED
    BY <1>1, RecoveryInvariant, PTL

\* What is deployed is what was tracked and merged, with the tracked head and
\* complete prerequisites, however many webhooks, pushes, selections and
\* retries interleave with handle_tracked_recovery_pull_request's read and write.
THEOREM DeployedWasTracked == Spec => []MergedAsTracked
  <1>1. RecoveryInv => MergedAsTracked
    BY InvariantMeans
  <1> QED
    BY <1>1, RecoveryInvariant, PTL

\* A plan is verified, and completed, only on a workflow run that succeeded,
\* although every handler writes a lifecycle it read earlier.
THEOREM VerifiedAfterDeployment == Spec => []VerifiedWasDeployed
  <1>1. RecoveryInv => VerifiedWasDeployed
    BY InvariantMeans
  <1> QED
    BY <1>1, RecoveryInvariant, PTL

\* The failure that a row records agrees with the workflow run that a retry
\* of it will read, so that no plan that failed after its merge is stuck.
THEOREM FailureCanBeRetried == Spec => []FailedIsRetryable
  <1>1. RecoveryInv => FailedIsRetryable
    BY InvariantMeans
  <1> QED
    BY <1>1, RecoveryInvariant, PTL

-----------------------------------------------------------------------------
(* The row implements RecoveryOutcome. *)

LEMMA OutcomeStarts == Init => Outcome!Init
  <1> SUFFICES ASSUME Init PROVE Outcome!Init
    OBVIOUS
  <1>1. row.lc.run = None /\ \A p \in Pull : run[<<p, 0>>] = "absent"
    BY FirstRun DEF Init, NewRow, NoLifecycle
  <1>2. Phase = "proposing" /\ Merged = None /\ Accepted = {}
    BY <1>1 DEF Phase, Merged, Accepted
  <1> QED
    BY <1>2 DEF Outcome!Init

\* No merge is accepted by the step.
SameAccepted == \A p \in Pull : run'[<<p, 0>>] = "absent" <=> run[<<p, 0>>] = "absent"

\* A step between proposals, or one that leaves the row alone, is no step of
\* the outcome.
LEMMA OutcomeStays ==
  ASSUME SameAccepted, row' = row \/ (row.lc.run = None /\ row'.lc.run = None)
  PROVE  UNCHANGED <<Phase, Merged, Accepted>>
  <1>1. Accepted' = Accepted
    BY DEF Accepted, SameAccepted
  <1>2. Phase' = Phase /\ Merged' = Merged
    BY DEF Phase, Merged
  <1> QED
    BY <1>1, <1>2

\* A lifecycle with a run names a merge that was accepted.
LEMMA OutcomeMoves ==
  ASSUME RecoveryInv', SameAccepted, row'.lc.run # None
  PROVE  Merged' \in Accepted /\ UNCHANGED Accepted
  <1>1. row' \in Row /\ RowRight(row', pulls', run', attempts')
    BY DEF RecoveryInv, TypeOK
  <1>2. row'.lc.run \in Run
    BY <1>1 DEF Row, Lifecycle
  <1>3. row'.lc.run[1] \in Pull /\ run'[<<row'.lc.run[1], 0>>] # "absent"
    BY <1>1, <1>2 DEF RowRight, Run
  <1>4. Merged' = row'.lc.run[1] /\ Accepted' = Accepted
    BY DEF Merged, Accepted, SameAccepted
  <1> QED
    BY <1>3, <1>4 DEF Accepted, SameAccepted

\* What the status of a right row says of its phase.
LEMMA PhaseIs ==
  ASSUME RowRight(row, pulls, run, attempts)
  PROVE  /\ row.status = "deploy_pending" => Phase = "deploying"
         /\ row.status = "verification_pending" => Phase = "verifying"
         /\ row.status = "completed" => Phase = "recovered"
         /\ row.status = "failed" => Phase \in {"failed", "proposing"}
         /\ row.status \in {"selection_requested", "selected", "pr_open"} =>
               Phase = "proposing" /\ row.lc.run = None
  BY DEF RowRight, Phase

LEMMA PhaseBecomes ==
  ASSUME RowRight(row', pulls', run', attempts'), row'.lc.run # None
  PROVE  /\ row'.status = "deploy_pending" => Phase' = "deploying"
         /\ row'.status = "verification_pending" => Phase' = "verifying"
         /\ row'.status = "completed" => Phase' = "recovered"
         /\ row'.status = "failed" => Phase' = "failed"
  BY DEF Phase

\* Proposals: the row and its successor have no run.
LEMMA ProposalStep ==
  ASSUME RecoveryInv, RecoveryInv', UNCHANGED run,
         row' = row \/ /\ row.status \in {"selection_requested", "selected", "pr_open"}
                       /\ row'.status \in {"selection_requested", "selected", "pr_open"}
  PROVE  UNCHANGED <<Phase, Merged, Accepted>>
  <1>1. RowRight(row, pulls, run, attempts) /\ RowRight(row', pulls', run', attempts')
    BY ZenonT(40) DEF RecoveryInv
  <1>2. row' = row \/ (row.lc.run = None /\ row'.lc.run = None)
    BY <1>1 DEF RowRight
  <1> QED
    BY <1>2, OutcomeStays DEF SameAccepted

\* A write that keeps or moves a plan which has a run afterwards.
LEMMA ResultStep ==
  ASSUME RecoveryInv, RecoveryInv', SameAccepted, NEW from, NEW to,
         <<from, to>> \in {<<"deploy_pending", "verification_pending">>, <<"deploy_pending", "failed">>,
                           <<"verification_pending", "completed">>, <<"verification_pending", "failed">>,
                           <<"failed", "deploy_pending">>, <<"failed", "verification_pending">>},
         row.status = from, row'.status = to, row'.lc.run # None
  PROVE  Outcome!Next
  <1>1. Merged' \in Accepted /\ UNCHANGED Accepted
    BY OutcomeMoves
  <1>2. RowRight(row, pulls, run, attempts) /\ RowRight(row', pulls', run', attempts')
    BY DEF RecoveryInv
  <1>3. \/ Phase = "deploying" /\ Phase' \in {"verifying", "failed"}
        \/ Phase = "verifying" /\ Phase' \in {"recovered", "failed"}
        \/ Phase \in {"failed", "proposing"} /\ Phase' \in {"deploying", "verifying"}
    BY <1>2, PhaseIs, PhaseBecomes
  <1> QED
    BY <1>1, <1>3 DEF Outcome!Next, Outcome!Step

LEMMA MergeOutcome ==
  ASSUME RecoveryInv, RecoveryInv', NEW t \in tasks, WebhookMerges(t)
  PROVE  [Outcome!Next]_<<Phase, Merged, Accepted>>
  <1>1. CASE RejectPull(t) /\ UNCHANGED run
    BY <1>1, ProposalStep DEF RejectPull, Cas
  <1>2. CASE UNCHANGED <<row, run>>
    BY <1>2, ProposalStep
  <1> DEFINE r == <<t.evt.pull, 0>>
  <1>3. CASE /\ row.status = "pr_open" /\ RequestRun(r, {[kind |-> "pr_merged", run |-> r]})
             /\ Cas("pr_open", "deploy_pending", row.action, [t.seen.lc EXCEPT !.run = r])
    <2>1. t.evt.kind = "merge" /\ t.evt.pull \in Pull /\ r \in Run /\ Carries(t.evt, t.evt.pull)
      BY TaskTyped, EventFields, FirstRun, SMTT(40) DEF WebhookMerges, Carries
    <2>2. run[r] = "absent"
      BY <2>1, TaskTyped DEF TaskRight, EventRight
    <2>3. /\ run' = [run EXCEPT ![r] = "requested"]
          /\ run \in [Run -> {"absent", "requested", "succeeded", "failed"}]
      BY <1>3, <2>2, SMTT(40) DEF RequestRun, RecoveryInv, TypeOK
    <2>4. t.evt.pull \notin Accepted /\ Accepted' = Accepted \cup {t.evt.pull}
      <3>1. \A p \in Pull : run'[<<p, 0>>] = IF p = t.evt.pull THEN "requested" ELSE run[<<p, 0>>]
        BY <2>1, <2>3, FirstRun, Zenon
      <3> QED
        BY <2>1, <2>2, <3>1 DEF Accepted
    <2>5. row'.status = "deploy_pending" /\ row'.lc.run = r
      BY <1>3, TaskTyped DEF Cas, Lifecycle
    <2>6. r # None /\ r[1] = t.evt.pull
      BY <2>1, NoneIsNoRun
    <2>7. Phase' = "deploying" /\ Merged' = t.evt.pull
      BY <2>5, <2>6 DEF Phase, Merged
    <2>8. Phase = "proposing"
      BY <1>3, PhaseIs DEF RecoveryInv
    <2>9. Outcome!Accept
      BY <2>1, <2>4, <2>7, <2>8, SMTT(40) DEF Outcome!Accept
    <2> QED
      BY <2>9 DEF Outcome!Next
  <1> QED
    BY <1>1, <1>2, <1>3 DEF WebhookMerges, Cas

LEMMA RetryOutcome ==
  ASSUME RecoveryInv, RecoveryInv', NEW t \in tasks, Retry(t)
  PROVE  [Outcome!Next]_<<Phase, Merged, Accepted>>
  <1>1. t.evt.kind = "retry" /\ t.seen.status = "failed"
    BY TaskTyped DEF Retry, TaskRight
  <1>2. CASE t.seen.lc.failure = "safe_pr" /\ RetryPull(t)
    <2>1. CASE row.status = "failed"
      <3>1. row'.lc.run = None /\ row'.status = "selected" /\ run' = run
        <4>1. row'.status = "selected" /\ run' = run
          BY <1>2, <2>1 DEF RetryPull, Selected
        <4> QED
          BY <4>1, Zenon DEF RecoveryInv, RowRight
      <3>2. Phase' = "proposing" /\ Merged' = None /\ Accepted' = Accepted
        BY <3>1 DEF Phase, Merged, Accepted
      <3>3. CASE row.lc.run = None
        BY <3>1, <3>3, OutcomeStays DEF SameAccepted
      <3>4. CASE row.lc.run # None
        <4>1. Phase = "failed"
          BY <2>1, <3>4 DEF Phase
        <4> QED
          BY <3>2, <4>1 DEF Outcome!Next, Outcome!Reopen
      <3> QED
        BY <3>3, <3>4
    <2>2. CASE row.status # "failed"
      BY <1>2, <2>2, ProposalStep DEF RetryPull
    <2> QED
      BY <2>1, <2>2
  <1>3. CASE t.seen.lc.failure = "deploy" /\ RetryDeploy(t)
    <2> DEFINE r == <<t.seen.lc.run[1], t.seen.lc.run[2] + 1>>
               lc == [t.seen.lc EXCEPT !.run = r, !.failure = "none"]
    <2>1. CASE row.status = "failed"
      <3>1. t.seen.lc.run \in Run
        BY <1>1, <1>3, TaskTyped, Zenon DEF RowRight, Lifecycle
      <3>2. \A p \in Pull : <<p, 0>> # r
        BY <3>1 DEF Run
      <3>3. row' = [status |-> "deploy_pending", action |-> row.action, lc |-> lc]
        BY <1>3, <2>1 DEF RetryDeploy, Cas
      <3>4. row'.status = "deploy_pending" /\ row'.lc.run # None
        BY <3>3, Zenon DEF RecoveryInv, RowRight
      <3>5. /\ run' = [run EXCEPT ![r] = IF @ = "absent" THEN "requested" ELSE @]
            /\ run \in [Run -> {"absent", "requested", "succeeded", "failed"}]
        BY <1>3, <2>1, Zenon DEF RetryDeploy, RequestRun, RecoveryInv, TypeOK
      <3>6. SameAccepted
        BY <3>2, <3>5, FirstRun, Zenon DEF SameAccepted
      <3> QED
        BY <2>1, <3>4, <3>6, ResultStep
    <2>2. CASE row.status # "failed"
      BY <1>3, <2>2, ProposalStep, SMTT(40) DEF RetryDeploy, Cas
    <2> QED
      BY <2>1, <2>2
  <1>4. CASE t.seen.lc.failure = "expired" /\ RetryVerification(t)
    <2>1. CASE row.status = "failed"
      <3>1. row'.status = "verification_pending" /\ run' = run
        BY <1>4, <2>1, SMTT(40) DEF RetryVerification, Cas
      <3>2. row'.lc.run # None
        BY <3>1, ZenonT(40) DEF RecoveryInv, RowRight
      <3> QED
        BY <2>1, <3>1, <3>2, ResultStep DEF SameAccepted
    <2>2. CASE row.status # "failed"
      BY <1>4, <2>2, ProposalStep DEF RetryVerification, Cas
    <2> QED
      BY <2>1, <2>2
  <1> QED
    BY <1>2, <1>3, <1>4, SMTT(40) DEF Retry

\* The other handlers that write the row.
LEMMA FinishOutcome ==
  ASSUME RecoveryInv, RecoveryInv', NEW t \in tasks, Finish(t)
  PROVE  [Outcome!Next]_<<Phase, Merged, Accepted>>
  <1>1. RowRight(row, pulls, run, attempts) /\ RowRight(row', pulls', run', attempts')
    BY DEF RecoveryInv
  <1>2. CASE Select(t)
    BY <1>2, ProposalStep DEF Select, Selected
  <1>3. CASE WebhookRejects(t) \/ WebhookReadExact(t)
    BY <1>3, ProposalStep DEF WebhookRejects, WebhookReadExact, RejectPull, Cas
  <1>4. CASE OnSafePrCreated(t)
    <2>1. row \in Row /\ run' = run
      BY <1>4, Zenon DEF OnSafePrCreated, RecoveryInv, TypeOK
    <2>2. row' = row \/ (row.status = "selected" /\ row'.status \in {"selection_requested", "pr_open"})
      <3>1. CASE Reopen(t.seen.action)
        BY <2>1, <3>1, Zenon DEF Reopen, Row
      <3>2. ASSUME NEW lc, Cas("selected", "pr_open", row.action, lc)
            PROVE  row' = row \/ (row.status = "selected" /\ row'.status = "pr_open")
        BY <3>2 DEF Cas
      <3> QED
        BY <1>4, <3>1, <3>2, Zenon DEF OnSafePrCreated
    <2> QED
      BY <2>1, <2>2, ProposalStep
  <1>5. CASE OnSafePrFailed(t)
    <2>1. t.evt.kind = "pr_failed" /\ run' = run
      BY <1>5 DEF OnSafePrFailed
    <2>2. t.seen.lc \in Lifecycle /\ t.seen.lc.run = None
      BY <2>1, TaskTyped, Zenon DEF TaskRight, RowRight
    <2>3. [t.seen.lc EXCEPT !.failure = "safe_pr"].run = None
      BY <2>2, WithFailure
    <2>4. row' = row \/ (row.status = "selected" /\ row'.lc.run = None)
      <3> DEFINE lc == [t.seen.lc EXCEPT !.failure = "safe_pr"]
      <3>1. Cas("selected", "failed", row.action, lc) /\ lc.run = None
        BY <1>5, <2>3 DEF OnSafePrFailed
      <3> HIDE DEF lc
      <3> QED
        BY <3>1 DEF Cas
    <2> QED
      BY <1>1, <2>1, <2>4, PhaseIs, OutcomeStays DEF SameAccepted
  <1>6. CASE StartVerification(t) \/ OnDeployFailed(t)
    <2>1. UNCHANGED run /\ \/ row' = row
                           \/ /\ row.status = "deploy_pending"
                              /\ row'.status \in {"verification_pending", "failed"}
      BY <1>6 DEF StartVerification, OnDeployFailed, Cas
    <2>2. CASE row' = row
      BY <2>1, <2>2, ProposalStep
    <2>3. CASE row' # row
      <3>1. row'.lc.run # None
        <4>1. CASE row'.status = "verification_pending"
          BY <1>1, <4>1, ZenonT(40) DEF RowRight
        <4>2. CASE row'.status = "failed"
          <5>1. row' = [status |-> "failed", action |-> row.action,
                        lc |-> [t.seen.lc EXCEPT !.failure = "deploy"]]
            BY <1>6, <2>3, <4>2 DEF StartVerification, OnDeployFailed, Cas
          <5>2. row'.lc.failure = "deploy"
            BY <5>1, TaskTyped, WithFailure, Zenon
          <5> QED
            BY <1>1, <4>2, <5>2 DEF RowRight
        <4> QED
          BY <2>1, <2>3, <4>1, <4>2
      <3> QED
        BY <2>1, <2>3, <3>1, ResultStep DEF SameAccepted
    <2> QED
      BY <2>2, <2>3
  <1>7. CASE OnEvidence(t)
    <2>1. t.seen = row /\ row.status = "verification_pending" /\ run' = run /\ row \in Row
      BY <1>7, TaskTyped DEF OnEvidence, TaskRight
    <2>2. CASE Cas("verification_pending", "verification_pending", row.action, t.seen.lc)
      <3>1. row' = row
        BY <2>1, <2>2 DEF Cas, Row
      <3> QED
        BY <2>1, <3>1, ProposalStep, SMTT(40)
    <2>3. CASE Cas("verification_pending", "completed", row.action, [t.seen.lc EXCEPT !.failure = "none"])
      <3>1. row'.status = "completed"
        BY <2>1, <2>3, SMTT(40) DEF Cas
      <3>2. row'.lc.run # None
        BY <1>1, <3>1 DEF RowRight
      <3> QED
        BY <2>1, <3>1, <3>2, ResultStep DEF SameAccepted
    <2>4. CASE Cas("verification_pending", "failed", row.action, [t.seen.lc EXCEPT !.failure = "expired"])
      <3>1. row'.status = "failed" /\ row'.lc = [t.seen.lc EXCEPT !.failure = "expired"]
        BY <2>1, <2>4 DEF Cas
      <3>2. row'.lc.failure = "expired"
        BY <3>1, TaskTyped, WithFailure, SMTT(40)
      <3>3. row'.lc.run # None
        BY <1>1, <3>1, <3>2 DEF RowRight
      <3> QED
        BY <2>1, <3>1, <3>3, ResultStep DEF SameAccepted
    <2> QED
      BY <1>7, <2>2, <2>3, <2>4 DEF OnEvidence
  <1> QED
    BY <1>2, <1>3, <1>4, <1>5, <1>6, <1>7, MergeOutcome, RetryOutcome, SMTT(40) DEF Finish

LEMMA OutcomeStep ==
  RecoveryInv /\ RecoveryInv' /\ [Next]_vars => [Outcome!Next]_<<Phase, Merged, Accepted>>
  <1> SUFFICES ASSUME RecoveryInv, RecoveryInv', [Next]_vars
               PROVE  [Outcome!Next]_<<Phase, Merged, Accepted>>
    OBVIOUS
  <1>1. CASE UNCHANGED <<row, run>>
    BY <1>1, ProposalStep
  <1>2. CASE Replan
    <2>1. row \in Row
      BY DEF RecoveryInv, TypeOK
    <2>2. row'.status = row.status /\ row.status = "selection_requested" /\ run' = run
      BY <1>2, <2>1 DEF Replan, Row
    <2> QED
      BY <2>2, ProposalStep, SMTT(40)
  <1>3. ASSUME NEW e \in events, OnActionRequired(e)
        PROVE  UNCHANGED <<Phase, Merged, Accepted>>
    <2>1. row \in Row /\ run' = run
      BY <1>3 DEF OnActionRequired, RecoveryInv, TypeOK
    <2>2. row' = row \/ (row.status = "selected" /\ row'.status = "selection_requested")
      BY <1>3, <2>1, Zenon DEF OnActionRequired, Reopen, Row
    <2> QED
      BY <2>1, <2>2, ProposalStep, SMTT(40)
  <1>4. ASSUME NEW e \in events, Worker(e) \/ WebhookRead(e) \/ \E p \in Pull : PushOntoPull(e, p)
        PROVE  OnActionRequired(e) \/ UNCHANGED <<row, run>>
    BY <1>4 DEF Worker, Dispatch, CreatePull, CreatePullFails, FeedbackRead, WebhookRead, PushOntoPull
  <1>5. ASSUME NEW a \in Action, SelectRequest(a) \/ PreflightFails(a) PROVE UNCHANGED <<row, run>>
    BY <1>5 DEF SelectRequest, PreflightFails
  <1>6. CASE RetryRequest \/ EvidenceRead \/ AuthorityMoves \/ UNCHANGED vars
    BY <1>1, <1>6 DEF RetryRequest, EvidenceRead, AuthorityMoves, vars
  <1>7. ASSUME NEW p \in Pull, GitHubChanges(p) PROVE UNCHANGED <<row, run>>
    BY <1>7 DEF GitHubChanges
  <1>8. ASSUME NEW r \in Run, RunEnds(r) PROVE UNCHANGED <<Phase, Merged, Accepted>>
    <2>1. PICK state \in {"succeeded", "failed"} : run' = [run EXCEPT ![r] = state]
      BY <1>8, ZenonT(40) DEF RunEnds
    <2>2. run[r] = "requested" /\ row' = row /\ run \in [Run -> {"absent", "requested", "succeeded", "failed"}]
      BY <1>8 DEF RunEnds, RecoveryInv, TypeOK
    <2>3. SameAccepted
      BY <2>1, <2>2, FirstRun, Zenon DEF SameAccepted
    <2> QED
      BY <2>2, <2>3, OutcomeStays
  <1> QED
    BY <1>1, <1>2, <1>3, <1>4, <1>5, <1>6, <1>7, <1>8, FinishOutcome, SMTT(40) DEF Next

\* The row implements RecoveryOutcome: a pull request is accepted once, only
\* accepted merges are deployed, a deployment or verification under way is
\* never sent back to proposals by a stale handler, and a recovered plan is
\* never touched again.
THEOREM PlanKeepsItsOutcome == Spec => OnlyAcceptedMerges
  <1>1. RecoveryInv /\ RecoveryInv' /\ [Next]_vars => [Outcome!Next]_<<Phase, Merged, Accepted>>
    BY OutcomeStep
  <1> QED
    BY <1>1, OutcomeStarts, RecoveryInvariant, PTL DEF Spec, OnlyAcceptedMerges, Outcome!Spec
==============================================================================
