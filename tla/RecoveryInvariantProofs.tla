------------------------ MODULE RecoveryInvariantProofs ------------------------
(***************************************************************************)
(* The inductive invariant of the recovery plan, the shapes that its steps  *)
(* have, and the steps of planning, of the Draft PR, of GitHub and of the   *)
(* handlers that answer them.  RecoveryLifecycleProofs goes on from here.   *)
(***************************************************************************)
EXTENDS RecoveryLifecycle, FiniteSetTheorems, TLAPS

\* A row that was read stays right while P (the pull requests), R (the runs)
\* and n (the attempts) move forward: a lifecycle with a run names the merge
\* that was tracked, and the status agrees with the run.
RowRight(r, P, R, n) ==
    /\ r.lc.attempt <= n /\ r.lc.number <= n
    /\ r.status # "selection_requested" => r.action # None
    /\ r.status = "pr_open" => r.lc.pull # None
    /\ r.lc.run # None =>
          /\ r.lc.pull = r.lc.run[1] /\ ~r.lc.blocked
          /\ P[r.lc.pull].state = "merged" /\ P[r.lc.pull].head = r.lc.head
          /\ R[<<r.lc.pull, 0>>] # "absent"
    /\ r.status \in {"selection_requested", "selected", "pr_open"} => r.lc.run = None
    /\ r.status \in {"deploy_pending", "verification_pending", "completed"} => r.lc.run # None
    /\ r.status \in {"verification_pending", "completed"} => R[r.lc.run] = "succeeded"
    /\ r.status = "failed" =>
          \/ r.lc.failure = "safe_pr" /\ r.lc.run = None
          \/ r.lc.failure = "deploy" /\ r.lc.run # None /\ R[r.lc.run] = "failed"
          \/ r.lc.failure = "expired" /\ r.lc.run # None /\ R[r.lc.run] = "succeeded"

\* e carries the merge of p from GitHub towards the row.
Carries(e, p) ==
    /\ e.kind = "merge" \/ (e.kind = "closed" /\ e.merged)
    /\ e.pull = p

\* What an event says is true and stays so; a merge under way is not deployed.
EventRight(e, P, R) ==
    /\ e.kind = "run_completed" => R[e.run] = "succeeded"
    /\ e.kind = "run_failed" => R[e.run] = "failed"
    /\ \A p \in Pull : Carries(e, p) =>
          P[p].state = "merged" /\ P[p].head = e.head /\ R[<<p, 0>>] = "absent"

\* What a handler holds between its read and its write; w is the row now.
TaskRight(t, w, P, R, n) ==
    /\ RowRight(t.seen, P, R, n) /\ EventRight(t.evt, P, R)
    /\ t.evt.kind \in {"created", "pr_failed"} => t.seen.status = "selected"
    /\ t.evt.kind \in {"synchronize", "closed", "merge"} => t.seen.status = "pr_open"
    /\ t.evt.kind = "merge" => t.seen.lc.pull = t.evt.pull /\ t.seen.lc.head = t.evt.head
    /\ t.evt.kind \in {"pr_merged", "run_completed", "run_failed"} =>
          t.seen.status = "deploy_pending" /\ t.seen.lc.run = t.evt.run
    /\ t.evt.kind = "retry" => /\ t.seen.status = "failed"
                               /\ t.seen.lc.failure = "deploy" => t.seen.lc.run[2] < MaxRetry
    /\ t.evt.kind = "evidence" => t.seen = w /\ w.status = "verification_pending"

\* One carrier of each merge, and one evidence handler.
OneCarrier(E, T) ==
    /\ \A p \in Pull : \A t, u \in T : Carries(t.evt, p) /\ Carries(u.evt, p) => t = u
    /\ \A p \in Pull : \A t \in T, e \in E : ~(Carries(t.evt, p) /\ Carries(e, p))
    /\ \A t, u \in T : t.evt.kind = "evidence" /\ u.evt.kind = "evidence" => t = u

\* The tasks that will make another selection.
Slots(T) ==
    {t \in T : t.evt.kind = "select" \/ (t.evt.kind = "retry" /\ t.seen.lc.failure = "safe_pr")}

SlotsLeft(T, n) == IsFiniteSet(T) /\ n + Cardinality(Slots(T)) <= MaxAttempt

RecoveryInv ==
    /\ TypeOK
    /\ SlotsLeft(tasks, attempts)
    /\ RowRight(row, pulls, run, attempts)
    /\ \A e \in events : EventRight(e, pulls, run)
    /\ \A t \in tasks : TaskRight(t, row, pulls, run, attempts)
    /\ OneCarrier(events, tasks)
    /\ \A p \in Pull : run[<<p, 0>>] # "absent" => pulls[p].state = "merged"

\* What every step does: selections are added, merged pull requests and ended
\* runs stay as they are, and no run disappears.
Forward ==
    /\ attempts <= attempts'
    /\ \A p \in Pull : pulls[p].state = "merged" => pulls'[p] = pulls[p]
    /\ \A r \in Run : /\ run[r] \in {"succeeded", "failed"} => run'[r] = run[r]
                      /\ run[r] # "absent" => run'[r] # "absent"

USE RecoveryAssumption

LEMMA FirstRun == \A p \in Pull : <<p, 0>> \in Run
  <1>1. 0 \in 0..MaxRetry
    OBVIOUS
  <1> QED
    BY <1>1 DEF Run

LEMMA RowStays ==
  ASSUME TypeOK, TypeOK', Forward, NEW r \in Row, RowRight(r, pulls, run, attempts)
  PROVE  RowRight(r, pulls', run', attempts')
  <1>1. /\ r.lc.attempt \in Nat /\ r.lc.number \in Nat
        /\ attempts \in Nat /\ attempts' \in Nat
        /\ r.lc.run # None => r.lc.run \in Run
        /\ r.lc.pull # None => r.lc.pull \in Pull
    BY DEF Row, Lifecycle, TypeOK
  <1>3. r.lc.run # None => r.lc.pull # None
    BY <1>1 DEF RowRight, Run
  <1> QED
    BY <1>1, <1>3, FirstRun DEF RowRight, Forward

LEMMA EventStays ==
  ASSUME TypeOK, Forward, NEW e, EventRight(e, pulls, run),
         e.kind \in {"run_completed", "run_failed"} => e.run \in Run,
         \A p \in Pull : Carries(e, p) => run'[<<p, 0>>] = run[<<p, 0>>]
  PROVE  EventRight(e, pulls', run')
  BY FirstRun DEF EventRight, Forward

\* The record of an event or request of a given kind.
LEMMA EventFields ==
  ASSUME NEW e \in Event \cup Request
  PROVE  /\ e.kind \in {"pr_merged", "run_completed", "run_failed"} => e.run \in Run
         /\ e.kind \in {"selected", "request", "created", "pr_failed"} =>
               e.approval \in Approval /\ e.attempt \in 1..MaxAttempt
         /\ e.kind \in {"request", "created", "select", "retry"} => e.commit \in Commit
         /\ e.kind \in {"required", "select"} => e.action \in Action
         /\ e.kind \in {"created", "synchronize", "closed", "merge"} => e.pull \in Pull
         /\ e.kind \in {"created", "closed", "merge"} => e.head \in Head
         /\ e.kind = "closed" => e.merged \in BOOLEAN
  BY DEF Event, Request

\* The invariant, given what is new of a step.
LEMMA Moves ==
  ASSUME RecoveryInv, TypeOK', Forward, SlotsLeft(tasks', attempts'),
         RowRight(row', pulls', run', attempts'),
         row' = row \/ \A t \in tasks' : t.evt.kind # "evidence",
         \A e \in events' : e \in events \/ EventRight(e, pulls', run'),
         \A t \in tasks' : t \in tasks \/ TaskRight(t, row', pulls', run', attempts'),
         OneCarrier(events', tasks'),
         \A p \in Pull : run'[<<p, 0>>] # run[<<p, 0>>] =>
              /\ run'[<<p, 0>>] # "absent" => pulls'[p].state = "merged"
              /\ \A e \in events \cap events' : ~Carries(e, p)
              /\ \A t \in tasks \cap tasks' : ~Carries(t.evt, p)
  PROVE  RecoveryInv'
  <1> USE DEF RecoveryInv
  <1>1. \A e \in events' : EventRight(e, pulls', run')
    <2> SUFFICES ASSUME NEW e \in events', e \in events PROVE EventRight(e, pulls', run')
      OBVIOUS
    <2>1. e \in Event \cup Request
      BY DEF TypeOK
    <2>2. e.kind \in {"run_completed", "run_failed"} => e.run \in Run
      BY <2>1, EventFields
    <2> QED
      BY <2>2, EventStays
  <1>2. ASSUME NEW t \in tasks' PROVE TaskRight(t, row', pulls', run', attempts')
    <2> SUFFICES ASSUME t \in tasks PROVE TaskRight(t, row', pulls', run', attempts')
      OBVIOUS
    <2>1. t.evt \in Event \cup Request /\ t.seen \in Row
      BY DEF TypeOK
    <2>2. t.evt.kind \in {"run_completed", "run_failed"} => t.evt.run \in Run
      BY <2>1, EventFields
    <2>3. TaskRight(t, row, pulls, run, attempts)
      OBVIOUS
    <2>4. EventRight(t.evt, pulls', run')
      BY <2>2, <2>3, EventStays DEF TaskRight
    <2>5. RowRight(t.seen, pulls', run', attempts')
      BY <2>1, <2>3, RowStays DEF TaskRight
    <2> QED
      BY <2>3, <2>4, <2>5 DEF TaskRight
  <1>3. \A p \in Pull : run'[<<p, 0>>] # "absent" => pulls'[p].state = "merged"
    BY DEF Forward
  <1> QED
    BY <1>1, <1>2, <1>3

LEMMA RecoveryStarts == Init => RecoveryInv
  <1> SUFFICES ASSUME Init PROVE RecoveryInv
    OBVIOUS
  <1>1. /\ 0 \in Commit /\ 0 \in Head /\ 0 \in 0..MaxAttempt
        /\ \A p \in Pull : run[<<p, 0>>] = "absent"
    BY FirstRun DEF Commit, Head, Init
  <1>2. NewRow \in Row
    BY <1>1 DEF NewRow, NoLifecycle, Row, Lifecycle, Status
  <1>3. TypeOK
    BY <1>1, <1>2 DEF Init, TypeOK, PullRequest
  <1>4. SlotsLeft(tasks, attempts)
    <2>1. tasks = {} /\ Slots(tasks) = {} /\ attempts = 0
      BY DEF Init, Slots
    <2>2. IsFiniteSet({}) /\ Cardinality({}) = 0
      BY FS_EmptySet
    <2> QED
      BY <2>1, <2>2 DEF SlotsLeft
  <1>5. RowRight(row, pulls, run, attempts)
    BY DEF Init, NewRow, NoLifecycle, RowRight
  <1> QED
    BY <1>1, <1>3, <1>4, <1>5 DEF Init, RecoveryInv, OneCarrier

-----------------------------------------------------------------------------
(* The bound on selections: tasks that end, begin, or use their slot. *)

LEMMA SlotsDrop ==
  ASSUME NEW T, NEW U \in SUBSET T, NEW n \in Nat, SlotsLeft(T, n)
  PROVE  SlotsLeft(U, n) /\ IsFiniteSet(Slots(T)) /\ Cardinality(Slots(T)) \in Nat
  <1>1. Slots(T) \subseteq T /\ Slots(U) \subseteq Slots(T)
    BY DEF Slots
  <1>2. IsFiniteSet(U) /\ IsFiniteSet(Slots(T)) /\ IsFiniteSet(Slots(U))
    BY <1>1, FS_Subset DEF SlotsLeft
  <1>3. Cardinality(Slots(U)) <= Cardinality(Slots(T))
    BY <1>1, <1>2, FS_Subset
  <1>4. Cardinality(Slots(U)) \in Nat /\ Cardinality(Slots(T)) \in Nat
    BY <1>2, FS_CardinalityType
  <1> QED
    BY <1>2, <1>3, <1>4 DEF SlotsLeft

LEMMA SlotsUse ==
  ASSUME NEW T, NEW t \in Slots(T), NEW n \in Nat, SlotsLeft(T, n)
  PROVE  SlotsLeft(T \ {t}, n + 1) /\ n + 1 <= MaxAttempt
  <1>1. Slots(T \ {t}) = Slots(T) \ {t}
    BY DEF Slots
  <1>2. IsFiniteSet(Slots(T)) /\ Cardinality(Slots(T)) \in Nat
    BY SlotsDrop
  <1>3. Cardinality(Slots(T) \ {t}) = Cardinality(Slots(T)) - 1 /\ IsFiniteSet(Slots(T) \ {t})
    BY <1>2, FS_RemoveElement
  <1>4. IsFiniteSet(T \ {t})
    BY FS_Subset DEF SlotsLeft
  <1>5. Cardinality(Slots(T) \ {t}) \in Nat
    BY <1>3, FS_CardinalityType
  <1>6. Cardinality(Slots(T \ {t})) = Cardinality(Slots(T) \ {t})
    BY <1>1
  <1>7. n + Cardinality(Slots(T)) <= MaxAttempt
    BY DEF SlotsLeft
  <1> HIDE DEF Slots
  <1>8. n + 1 + Cardinality(Slots(T \ {t})) <= MaxAttempt /\ n + 1 <= MaxAttempt
    BY <1>2, <1>3, <1>5, <1>6, <1>7
  <1> QED
    BY <1>4, <1>8 DEF SlotsLeft

LEMMA SlotsAdd ==
  ASSUME NEW T, NEW x, NEW n \in Nat, SlotsLeft(T, n),
         x \in Slots({x}) => n + Cardinality(Slots(T)) < MaxAttempt
  PROVE  SlotsLeft(T \cup {x}, n)
  <1>1. IsFiniteSet(T \cup {x})
    BY FS_AddElement DEF SlotsLeft
  <1>2. IsFiniteSet(Slots(T)) /\ Cardinality(Slots(T)) \in Nat
    BY SlotsDrop
  <1>3. CASE x \in Slots({x}) /\ x \notin T
    <2>1. Slots(T \cup {x}) = Slots(T) \cup {x} /\ x \notin Slots(T)
      BY <1>3 DEF Slots
    <2>2. Cardinality(Slots(T) \cup {x}) = Cardinality(Slots(T)) + 1
      BY <1>2, <2>1, FS_AddElement, Zenon
    <2>3. Cardinality(Slots(T \cup {x})) = Cardinality(Slots(T)) + 1
      BY <2>1, <2>2
    <2>4. n + Cardinality(Slots(T \cup {x})) <= MaxAttempt
      BY <1>2, <1>3, <2>3
    <2> QED
      BY <1>1, <2>4 DEF SlotsLeft
  <1>4. CASE x \notin Slots({x}) \/ x \in T
    <2>1. Slots(T \cup {x}) = Slots(T)
      BY <1>4, SMTT(40) DEF Slots
    <2> QED
      BY <1>1, <2>1 DEF SlotsLeft
  <1> QED
    BY <1>3, <1>4

-----------------------------------------------------------------------------
(* The shapes of a step. *)

\* Events and pull requests change: workers on their way, and GitHub.
LEMMA EventsStep ==
  ASSUME RecoveryInv, UNCHANGED <<row, attempts, approval, authority, tasks, run>>,
         pulls' \in [Pull -> PullRequest], events' \subseteq Event,
         \A p \in Pull : pulls[p].state = "merged" => pulls'[p] = pulls[p],
         \A e \in events' : e \in events \/
              /\ EventRight(e, pulls', run)
              /\ \A p \in Pull : \A t \in tasks : ~(Carries(t.evt, p) /\ Carries(e, p))
  PROVE  RecoveryInv'
  <1>1. TypeOK' /\ Forward
    BY DEF RecoveryInv, TypeOK, Forward
  <1>2. OneCarrier(events', tasks')
    BY DEF RecoveryInv, OneCarrier
  <1>3. RowRight(row', pulls', run', attempts')
    BY <1>1, RowStays, SMTT(40) DEF RecoveryInv, TypeOK
  <1> QED
    BY <1>1, <1>2, <1>3, Moves DEF RecoveryInv

\* A handler reads and holds.
LEMMA HoldStep ==
  ASSUME RecoveryInv, UNCHANGED <<row, attempts, approval, authority, pulls, run>>,
         events' \subseteq events,
         NEW evt \in Event \cup Request, NEW seen \in Row, HoldSeen(evt, seen),
         \A p \in Pull : Carries(evt, p) =>
             /\ \A t \in tasks : ~Carries(t.evt, p)
             /\ \A e \in events' : ~Carries(e, p),
         evt.kind = "evidence" => SubjectFree("evidence"),
         evt.kind = "select" \/ (evt.kind = "retry" /\ seen.lc.failure = "safe_pr")
             => attempts + Cardinality(Slots(tasks)) < MaxAttempt,
         \A n : TaskRight([evt |-> evt, seen |-> seen, copy |-> n], row, pulls, run, attempts)
  PROVE  RecoveryInv'
  <1>1. PICK n \in 0..MaxRequest : tasks' = tasks \cup {[evt |-> evt, seen |-> seen, copy |-> n]}
    BY DEF HoldSeen
  <1>2. PICK x : x = [evt |-> evt, seen |-> seen, copy |-> n]
    BY Zenon
  <1>3. /\ tasks' = tasks \cup {x} /\ x.evt = evt /\ x.seen = seen
        /\ x \in [evt: Event \cup Request, seen: Row, copy: 0..MaxRequest]
        /\ TaskRight(x, row, pulls, run, attempts)
    BY <1>1, <1>2, SMTT(40)
  <1>4. TypeOK' /\ Forward
    BY <1>3 DEF RecoveryInv, TypeOK, Forward
  <1>5. SlotsLeft(tasks', attempts')
    <2>1. x \in Slots({x}) => attempts + Cardinality(Slots(tasks)) < MaxAttempt
      BY <1>3 DEF Slots
    <2>2. attempts \in Nat
      BY DEF RecoveryInv, TypeOK
    <2> QED
      BY <1>3, <2>1, <2>2, SlotsAdd DEF RecoveryInv
  <1>6. OneCarrier(events', tasks')
    BY <1>3, SMTT(40) DEF RecoveryInv, OneCarrier, SubjectFree
  <1> QED
    BY <1>3, <1>4, <1>5, <1>6, Moves DEF RecoveryInv

\* A handler writes the row and is done.
LEMMA WriteStep ==
  ASSUME RecoveryInv, NEW t \in tasks, tasks' = tasks \ {t},
         UNCHANGED <<authority, pulls>>,
         approval' \in [Approval -> Commit \cup {None}],
         run' \in [Run -> {"absent", "requested", "succeeded", "failed"}],
         row' \in Row, events' \subseteq Event,
         attempts' = attempts \/ (attempts' = attempts + 1 /\ t \in Slots(tasks)),
         \A r \in Run : /\ run[r] \in {"succeeded", "failed"} => run'[r] = run[r]
                        /\ run[r] # "absent" => run'[r] # "absent",
         \A p \in Pull : run'[<<p, 0>>] = run[<<p, 0>>] \/ Carries(t.evt, p),
         \A e \in events' : e \in events \/
              (EventRight(e, pulls, run') /\ \A p \in Pull : ~Carries(e, p)),
         RowRight(row', pulls, run', attempts'),
         row' = row \/ row.status # "verification_pending" \/ t.evt.kind = "evidence"
  PROVE  RecoveryInv'
  <1>1. attempts \in Nat /\ attempts' \in Nat /\ attempts <= attempts' /\ attempts' \in 0..MaxAttempt
    <2>1. attempts \in Nat /\ attempts \in 0..MaxAttempt /\ SlotsLeft(tasks, attempts)
      BY DEF RecoveryInv, TypeOK
    <2>2. t \in Slots(tasks) => attempts + 1 <= MaxAttempt
      BY <2>1, SlotsUse, Zenon
    <2> QED
      BY <2>1, <2>2
  <1>2. TypeOK' /\ Forward
    BY <1>1 DEF RecoveryInv, TypeOK, Forward
  <1>3. SlotsLeft(tasks', attempts')
    BY <1>1, SlotsUse, SlotsDrop DEF RecoveryInv
  <1>4. OneCarrier(events', tasks')
    BY DEF RecoveryInv, OneCarrier
  <1>5. row' = row \/ \A u \in tasks' : u.evt.kind # "evidence"
    BY SMTT(40) DEF RecoveryInv, OneCarrier, TaskRight
  <1>6. \A p \in Pull : run'[<<p, 0>>] # run[<<p, 0>>] =>
              /\ pulls[p].state = "merged"
              /\ \A e \in events : ~Carries(e, p)
              /\ \A u \in tasks' : ~Carries(u.evt, p)
    BY SMTT(40) DEF RecoveryInv, OneCarrier, TaskRight, EventRight
  <1> QED
    BY <1>2, <1>3, <1>4, <1>5, <1>6, Moves DEF RecoveryInv

\* The row changes and no handler is done: replanning and reopening.
LEMMA RowStep ==
  ASSUME RecoveryInv, UNCHANGED <<attempts, approval, authority, tasks, pulls, run>>,
         events' \subseteq events, row' \in Row, RowRight(row', pulls, run, attempts),
         row' = row \/ row.status # "verification_pending"
  PROVE  RecoveryInv'
  <1>1. TypeOK' /\ Forward
    BY DEF RecoveryInv, TypeOK, Forward
  <1>2. OneCarrier(events', tasks')
    BY DEF RecoveryInv, OneCarrier
  <1>3. row' = row \/ \A u \in tasks' : u.evt.kind # "evidence"
    BY DEF RecoveryInv, TaskRight
  <1> QED
    BY <1>1, <1>2, <1>3, Moves DEF RecoveryInv

-----------------------------------------------------------------------------
(* Planning, the Draft PR and GitHub. *)

\* Kinds of events that claim nothing of a run or a merge.
LEMMA QuietEvent ==
  ASSUME NEW e, NEW P, NEW R,
         e.kind \notin {"run_completed", "run_failed", "closed", "merge"}
  PROVE  EventRight(e, P, R) /\ \A p \in Pull : ~Carries(e, p)
  BY DEF EventRight, Carries

LEMMA NoLifecycleTyped == NoLifecycle \in Lifecycle /\ NewRow \in Row
  <1>1. 0 \in 0..MaxAttempt /\ 0 \in Head
    BY DEF Head
  <1>2. NoLifecycle \in Lifecycle
    BY <1>1 DEF NoLifecycle, Lifecycle
  <1> QED
    BY <1>2 DEF NewRow, Row, Status

LEMMA ReplanStep == ASSUME RecoveryInv, Replan PROVE RecoveryInv'
  <1>1. row \in Row /\ row.status = "selection_requested" /\ row' = [row EXCEPT !.lc = NoLifecycle]
    BY DEF Replan, RecoveryInv, TypeOK
  <1>2. row' \in Row /\ row'.status = row.status /\ row'.lc = NoLifecycle /\ row'.action = row.action
    BY <1>1, NoLifecycleTyped DEF Row
  <1>3. attempts \in Nat
    BY DEF RecoveryInv, TypeOK
  <1>4. RowRight(row', pulls, run, attempts)
    BY <1>1, <1>2, <1>3 DEF RecoveryInv, RowRight, NoLifecycle
  <1> QED
    BY <1>1, <1>2, <1>4, RowStep DEF Replan

LEMMA ReopenMeans ==
  ASSUME RecoveryInv, NEW a, Reopen(a)
  PROVE  /\ row' \in Row /\ RowRight(row', pulls, run, attempts)
         /\ row' = row \/ row.status # "verification_pending"
  <1>1. row \in Row /\ RowRight(row, pulls, run, attempts)
    BY DEF RecoveryInv, TypeOK
  <1>2. CASE row.status = "selected" /\ row.action = a
    <2>1. row' = [row EXCEPT !.status = "selection_requested", !.action = None]
      BY <1>2 DEF Reopen
    <2>2. row' \in Row /\ row'.status = "selection_requested" /\ row'.lc = row.lc
      BY <1>1, <2>1, Zenon DEF Row, Status
    <2> QED
      BY <1>1, <1>2, <2>2 DEF RowRight
  <1>3. CASE ~(row.status = "selected" /\ row.action = a)
    BY <1>1, <1>3 DEF Reopen
  <1> QED
    BY <1>2, <1>3

LEMMA ActionRequiredStep ==
  ASSUME RecoveryInv, NEW e \in events, OnActionRequired(e) PROVE RecoveryInv'
  <1>1. Reopen(e.action) /\ events' \subseteq events
    BY DEF OnActionRequired
  <1> QED
    BY <1>1, ReopenMeans, RowStep DEF OnActionRequired

LEMMA PreflightStep == ASSUME RecoveryInv, NEW a \in Action, PreflightFails(a) PROVE RecoveryInv'
  <1> DEFINE e == [kind |-> "required", action |-> a]
  <1>1. e \in Event /\ e.kind = "required"
    BY DEF Event
  <1>2. EventRight(e, pulls, run) /\ \A p \in Pull : ~Carries(e, p)
    BY <1>1, QuietEvent
  <1>3. events' = events \cup {e} /\ UNCHANGED <<row, attempts, approval, authority, tasks, pulls, run>>
    BY SMTT(40) DEF PreflightFails
  <1> HIDE DEF e
  <1> QED
    BY <1>1, <1>2, <1>3, EventsStep, SMTT(40) DEF RecoveryInv, TypeOK

LEMMA DispatchStep == ASSUME RecoveryInv, NEW e \in events, Dispatch(e) PROVE RecoveryInv'
  <1>1. e \in Event \cup Request /\ e.kind = "selected" /\ authority \in Commit
    BY DEF Dispatch, RecoveryInv, TypeOK
  <1>2. e.approval \in Approval /\ e.attempt \in 1..MaxAttempt /\ e.approval[1] \in Action
    BY <1>1, EventFields DEF Approval
  <1>3. ASSUME NEW x \in events' PROVE x \in events \/ (x \in Event /\ x.kind \in {"request", "required"})
    <2>1. x \in events
          \/ x = [kind |-> "request", approval |-> e.approval, attempt |-> e.attempt, commit |-> authority]
          \/ x = [kind |-> "required", action |-> e.approval[1]]
      BY DEF Dispatch
    <2> QED
      BY <1>1, <1>2, <2>1 DEF Event
  <1>4. events' \subseteq Event
    BY <1>3 DEF RecoveryInv, TypeOK
  <1>5. \A x \in events' : x \in events \/ (EventRight(x, pulls', run) /\ \A p \in Pull : ~Carries(x, p))
    BY <1>3, QuietEvent
  <1> QED
    BY <1>4, <1>5, EventsStep DEF Dispatch, RecoveryInv, TypeOK

\* The answers of the Draft PR worker.
LEMMA AnswerTyped ==
  ASSUME RecoveryInv, NEW e \in events, e.kind = "request"
  PROVE  /\ e.approval \in Approval
         /\ FailedEvent(e) \in Event /\ FailedEvent(e).kind = "pr_failed"
         /\ \A p \in Pull, h \in Head :
               CreatedEvent(e, p, h) \in Event /\ CreatedEvent(e, p, h).kind = "created"
  <1>1. e \in Event \cup Request
    BY DEF RecoveryInv, TypeOK
  <1>2. e.approval \in Approval /\ e.attempt \in 1..MaxAttempt /\ e.commit \in Commit
    BY <1>1, EventFields
  <1>3. FailedEvent(e) \in Event /\ FailedEvent(e).kind = "pr_failed"
    BY <1>2 DEF FailedEvent, Event
  <1>4. ASSUME NEW p \in Pull, NEW h \in Head
        PROVE  CreatedEvent(e, p, h) \in Event /\ CreatedEvent(e, p, h).kind = "created"
    BY <1>2 DEF CreatedEvent, Event
  <1> QED
    BY <1>2, <1>3, <1>4

LEMMA MakePullMeans ==
  ASSUME RecoveryInv, NEW e \in events, e.kind = "request", NEW p \in Pull, MakePull(e, p)
  PROVE  /\ pulls' \in [Pull -> PullRequest]
         /\ \A x \in Pull : pulls[x].state = "merged" => pulls'[x] = pulls[x]
  <1>1. pulls \in [Pull -> PullRequest] /\ e.approval \in Approval /\ 0 \in Head
    BY AnswerTyped DEF RecoveryInv, TypeOK, Head
  <1>2. [state |-> "open", head |-> 0, branch |-> e.approval] \in PullRequest
    BY <1>1 DEF PullRequest
  <1>3. pulls[p].state = "absent"
        /\ pulls' = [pulls EXCEPT ![p] = [state |-> "open", head |-> 0, branch |-> e.approval]]
    BY SMTT(40) DEF MakePull
  <1> QED
    BY <1>1, <1>2, <1>3

LEMMA CreatePullStep ==
  ASSUME RecoveryInv, NEW e \in events, CreatePull(e) \/ CreatePullFails(e) PROVE RecoveryInv'
  <1>1. e.kind = "request" /\ UNCHANGED <<row, attempts, approval, authority, tasks, run>>
    BY DEF CreatePull, CreatePullFails
  <1>2. pulls \in [Pull -> PullRequest] /\ 0 \in Head /\ \A p \in Pull : pulls[p].head \in Head
    BY DEF RecoveryInv, TypeOK, Head, PullRequest
  <1>3. /\ pulls' \in [Pull -> PullRequest]
        /\ \A x \in Pull : pulls[x].state = "merged" => pulls'[x] = pulls[x]
    BY <1>1, <1>2, MakePullMeans DEF CreatePull, CreatePullFails
  <1>4. PICK x \in Event : /\ events' = (events \ {e}) \cup {x}
                           /\ x.kind \in {"created", "pr_failed"}
    BY <1>1, <1>2, AnswerTyped DEF CreatePull, CreatePullFails, OpenOn
  <1>5. EventRight(x, pulls', run) /\ \A p \in Pull : ~Carries(x, p)
    BY <1>4, QuietEvent
  <1> QED
    BY <1>1, <1>3, <1>4, <1>5, EventsStep, SMTT(40) DEF RecoveryInv, TypeOK

LEMMA SynchronizeTyped == \A p \in Pull : [kind |-> "synchronize", pull |-> p] \in Event
  BY DEF Event

LEMMA PushStep ==
  ASSUME RecoveryInv, NEW e \in events, NEW p \in Pull, PushOntoPull(e, p) PROVE RecoveryInv'
  <1>1. /\ e.kind = "request" /\ UNCHANGED <<row, attempts, approval, authority, tasks, run>>
        /\ pulls[p].state = "open" /\ pulls[p].head < MaxPush
        /\ pulls' = [pulls EXCEPT ![p].head = @ + 1]
    BY DEF PushOntoPull, OpenOn
  <1>2. pulls \in [Pull -> PullRequest] /\ pulls[p].head + 1 \in Head
    BY <1>1 DEF RecoveryInv, TypeOK, Head, PullRequest
  <1>3. /\ pulls' \in [Pull -> PullRequest]
        /\ \A x \in Pull : pulls[x].state = "merged" => pulls'[x] = pulls[x]
    BY <1>1, <1>2 DEF PullRequest
  <1>4. PICK x \in Event : /\ events' = (events \ {e}) \cup {x, [kind |-> "synchronize", pull |-> p]}
                           /\ x.kind \in {"created", "pr_failed"}
    BY <1>1, <1>2, AnswerTyped DEF PushOntoPull
  <1>5. PICK y \in Event : y = [kind |-> "synchronize", pull |-> p] /\ y.kind = "synchronize"
    BY SynchronizeTyped, Zenon
  <1>6. /\ EventRight(x, pulls', run) /\ \A q \in Pull : ~Carries(x, q)
        /\ EventRight(y, pulls', run) /\ \A q \in Pull : ~Carries(y, q)
    BY <1>4, <1>5, QuietEvent
  <1> QED
    BY <1>1, <1>3, <1>4, <1>5, <1>6, EventsStep, Zenon DEF RecoveryInv, TypeOK

LEMMA GitHubStep ==
  ASSUME RecoveryInv, NEW p \in Pull, GitHubChanges(p) PROVE RecoveryInv'
  <1>1. /\ pulls[p].state = "open" /\ UNCHANGED <<row, attempts, approval, authority, tasks, run>>
        /\ pulls \in [Pull -> PullRequest] /\ pulls[p].head \in Head
    BY DEF GitHubChanges, RecoveryInv, TypeOK, PullRequest
  <1>2. ASSUME pulls[p].head < MaxPush, pulls' = [pulls EXCEPT ![p].head = @ + 1],
               events' = events \cup {[kind |-> "synchronize", pull |-> p]}
        PROVE  RecoveryInv'
    <2>1. pulls[p].head + 1 \in Head
      BY <1>1, <1>2 DEF Head
    <2>2. /\ pulls' \in [Pull -> PullRequest]
          /\ \A x \in Pull : pulls[x].state = "merged" => pulls'[x] = pulls[x]
      BY <1>1, <1>2, <2>1 DEF PullRequest
    <2>3. PICK y \in Event : y = [kind |-> "synchronize", pull |-> p] /\ y.kind = "synchronize"
      BY SynchronizeTyped, Zenon
    <2>4. EventRight(y, pulls', run) /\ \A q \in Pull : ~Carries(y, q)
      BY <2>3, QuietEvent, SMTT(40)
    <2> QED
      BY <1>1, <1>2, <2>2, <2>3, <2>4, EventsStep, Zenon DEF RecoveryInv, TypeOK
  <1>3. ASSUME NEW merged \in BOOLEAN,
               pulls' = [pulls EXCEPT ![p].state = IF merged THEN "merged" ELSE "closed"],
               events' = events \cup {[kind |-> "closed", pull |-> p, merged |-> merged, head |-> pulls[p].head]}
        PROVE  RecoveryInv'
    <2>1. /\ pulls' \in [Pull -> PullRequest]
          /\ \A x \in Pull : pulls[x].state = "merged" => pulls'[x] = pulls[x]
          /\ pulls'[p].head = pulls[p].head
          /\ pulls'[p].state = IF merged THEN "merged" ELSE "closed"
      BY <1>1, <1>3 DEF PullRequest
    <2>2. PICK y \in Event : /\ events' = events \cup {y}
                             /\ y.kind = "closed" /\ y.pull = p /\ y.merged = merged /\ y.head = pulls[p].head
      <3> DEFINE y == [kind |-> "closed", pull |-> p, merged |-> merged, head |-> pulls[p].head]
      <3>1. y \in Event
        BY <1>1, SMTT(40) DEF Event
      <3> QED
        BY <1>3, <3>1, SMTT(40)
    <2>3. run[<<p, 0>>] = "absent"
      BY <1>1, ZenonT(40) DEF RecoveryInv
    <2>4. EventRight(y, pulls', run)
      BY <2>1, <2>2, <2>3 DEF EventRight, Carries
    <2>5. \A q \in Pull : Carries(y, q) => q = p
      BY <2>2 DEF Carries
    <2>6. \A t \in tasks : ~Carries(t.evt, p)
      BY <1>1, ZenonT(40) DEF RecoveryInv, TaskRight, EventRight
    <2> QED
      BY <1>1, <2>1, <2>2, <2>4, <2>5, <2>6, EventsStep, ZenonT(40) DEF RecoveryInv, TypeOK
  <1> QED
    BY <1>2, <1>3 DEF GitHubChanges

LEMMA AuthorityStep == ASSUME RecoveryInv, AuthorityMoves PROVE RecoveryInv'
  <1>1. UNCHANGED <<row, attempts, approval, events, tasks, pulls, run>> /\ authority' \in Commit
    BY DEF AuthorityMoves, RecoveryInv, TypeOK, Commit
  <1>2. TypeOK'
    BY <1>1 DEF RecoveryInv, TypeOK
  <1> QED
    BY <1>1, <1>2 DEF RecoveryInv

-----------------------------------------------------------------------------
(* Handlers that read. *)

LEMMA AttemptLeftMeans ==
  ASSUME RecoveryInv, AttemptLeft PROVE attempts + Cardinality(Slots(tasks)) < MaxAttempt
  <1> DEFINE S == {t \in tasks : t.evt.kind \in {"select", "retry"}}
  <1>1. Slots(tasks) \subseteq S /\ S \subseteq tasks
    BY SMTT(40) DEF Slots
  <1>2. IsFiniteSet(S) /\ IsFiniteSet(Slots(tasks))
    BY <1>1, FS_Subset DEF RecoveryInv, SlotsLeft
  <1>3. Cardinality(Slots(tasks)) <= Cardinality(S)
    BY <1>1, <1>2, FS_Subset
  <1>4. Cardinality(S) \in Nat /\ Cardinality(Slots(tasks)) \in Nat /\ attempts \in Nat
    BY <1>2, FS_CardinalityType DEF RecoveryInv, TypeOK
  <1>5. attempts + Cardinality(S) < MaxAttempt
    BY SMTT(40) DEF AttemptLeft
  <1> HIDE DEF S
  <1> QED
    BY <1>3, <1>4, <1>5

LEMMA SelectRequestStep ==
  ASSUME RecoveryInv, NEW a \in Action, SelectRequest(a) PROVE RecoveryInv'
  <1>1. PICK q : q = [kind |-> "select", action |-> a, commit |-> authority]
    BY ZenonT(40)
  <1>2. q \in Event \cup Request /\ q.kind = "select"
    BY <1>1 DEF Request, RecoveryInv, TypeOK
  <1>3. HoldSeen(q, NewRow) /\ UNCHANGED <<row, attempts, approval, authority, events, pulls, run>>
    BY <1>1 DEF SelectRequest
  <1>4. attempts + Cardinality(Slots(tasks)) < MaxAttempt
    BY AttemptLeftMeans, SMTT(40) DEF SelectRequest
  <1>5. RowRight(NewRow, pulls, run, attempts)
    BY SMTT(40) DEF RowRight, NewRow, NoLifecycle, RecoveryInv, TypeOK
  <1>6. EventRight(q, pulls, run) /\ \A p \in Pull : ~Carries(q, p)
    BY <1>2, QuietEvent, SMTT(40)
  <1>7. ASSUME NEW n PROVE TaskRight([evt |-> q, seen |-> NewRow, copy |-> n], row, pulls, run, attempts)
    BY <1>2, <1>5, <1>6 DEF TaskRight
  <1>8. PICK s \in Row : s = NewRow
    BY NoLifecycleTyped
  <1> QED
    BY <1>2, <1>3, <1>4, <1>6, <1>7, <1>8, HoldStep

LEMMA RetryRequestStep == ASSUME RecoveryInv, RetryRequest PROVE RecoveryInv'
  <1>1. PICK q : q = [kind |-> "retry", commit |-> authority]
    BY ZenonT(40)
  <1>2. q \in Event \cup Request /\ q.kind = "retry"
    BY <1>1 DEF Request, RecoveryInv, TypeOK
  <1>3. PICK s \in Row : s = row
    BY DEF RecoveryInv, TypeOK
  <1>4. HoldSeen(q, s) /\ UNCHANGED <<row, attempts, approval, authority, events, pulls, run>>
    BY <1>1, <1>3 DEF RetryRequest, Hold
  <1>5. s.lc.failure = "safe_pr" => attempts + Cardinality(Slots(tasks)) < MaxAttempt
    BY <1>3, AttemptLeftMeans DEF RetryRequest
  <1>6. EventRight(q, pulls, run) /\ \A p \in Pull : ~Carries(q, p)
    BY <1>2, QuietEvent
  <1>7. s.status = "failed" /\ (s.lc.failure = "deploy" => s.lc.run[2] < MaxRetry)
    BY <1>3, SMTT(40) DEF RetryRequest, Retryable
  <1>8. ASSUME NEW n PROVE TaskRight([evt |-> q, seen |-> s, copy |-> n], row, pulls, run, attempts)
    BY <1>2, <1>3, <1>6, <1>7, ZenonT(40) DEF TaskRight, RecoveryInv
  <1> QED
    BY <1>2, <1>4, <1>5, <1>6, <1>8, HoldStep, ZenonT(40)

LEMMA EvidenceReadStep == ASSUME RecoveryInv, EvidenceRead PROVE RecoveryInv'
  <1>1. PICK q : q = [kind |-> "evidence"]
    BY ZenonT(40)
  <1>2. q \in Event \cup Request /\ q.kind = "evidence"
    BY <1>1, ZenonT(40) DEF Request
  <1>3. PICK s \in Row : s = row
    BY DEF RecoveryInv, TypeOK
  <1>4. HoldSeen(q, s) /\ UNCHANGED <<row, attempts, approval, authority, events, pulls, run>>
    BY <1>1, <1>3 DEF EvidenceRead, Hold
  <1>5. SubjectFree("evidence") /\ row.status = "verification_pending"
    BY DEF EvidenceRead
  <1>6. EventRight(q, pulls, run) /\ \A p \in Pull : ~Carries(q, p)
    BY <1>2, QuietEvent, SMTT(40)
  <1>7. ASSUME NEW n PROVE TaskRight([evt |-> q, seen |-> s, copy |-> n], row, pulls, run, attempts)
    BY <1>2, <1>3, <1>5, <1>6, ZenonT(40) DEF TaskRight, RecoveryInv
  <1> QED
    BY <1>2, <1>4, <1>5, <1>6, <1>7, HoldStep, ZenonT(40)

\* An event that nobody wants.
LEMMA DroppedStep ==
  ASSUME RecoveryInv, events' \subseteq events,
         UNCHANGED <<row, attempts, approval, authority, tasks, pulls, run>>
  PROVE  RecoveryInv'
  BY EventsStep DEF RecoveryInv, TypeOK

LEMMA FeedbackReadStep ==
  ASSUME RecoveryInv, NEW e \in events, FeedbackRead(e) PROVE RecoveryInv'
  <1>1. /\ events' \subseteq events /\ UNCHANGED <<row, attempts, approval, authority, pulls, run>>
        /\ e.kind \in {"created", "pr_failed", "pr_merged", "run_completed", "run_failed"}
    BY SMTT(40) DEF FeedbackRead
  <1>2. CASE Wanted(e)
    <2>1. PICK s \in Row : s = row
      BY DEF RecoveryInv, TypeOK
    <2>2. HoldSeen(e, s) /\ e \in Event \cup Request
      BY <1>2, <2>1, SMTT(40) DEF FeedbackRead, Hold, RecoveryInv, TypeOK
    <2>3. EventRight(e, pulls, run) /\ \A p \in Pull : ~Carries(e, p)
      BY <1>1 DEF RecoveryInv, Carries
    <2>4. /\ e.kind \in {"created", "pr_failed"} => s.status = "selected"
          /\ e.kind \in {"pr_merged", "run_completed", "run_failed"} =>
                s.status = "deploy_pending" /\ s.lc.run = e.run
      BY <1>1, <1>2, <2>1, SMTT(40) DEF Wanted
    <2>5. ASSUME NEW n PROVE TaskRight([evt |-> e, seen |-> s, copy |-> n], row, pulls, run, attempts)
      BY <1>1, <2>1, <2>3, <2>4, ZenonT(40) DEF TaskRight, RecoveryInv
    <2> QED
      BY <1>1, <2>2, <2>3, <2>5, HoldStep, ZenonT(40)
  <1>3. CASE ~Wanted(e)
    BY <1>1, <1>3, DroppedStep DEF FeedbackRead
  <1> QED
    BY <1>2, <1>3

\* Two events that carry the same merge are the same event.
LEMMA SameCarrier ==
  ASSUME NEW e \in Event, NEW f \in Event, NEW p \in Pull, NEW P, NEW R,
         Carries(e, p), Carries(f, p), EventRight(e, P, R), EventRight(f, P, R)
  PROVE  e = f
  <1>1. \A x \in Event : x.kind = "closed" \/ x.kind = "merge" =>
            x \in [kind: {"closed"}, pull: Pull, merged: BOOLEAN, head: Head]
    BY DEF Event
  <1>2. /\ e \in [kind: {"closed"}, pull: Pull, merged: BOOLEAN, head: Head]
        /\ f \in [kind: {"closed"}, pull: Pull, merged: BOOLEAN, head: Head]
    BY <1>1 DEF Carries
  <1>3. e.pull = p /\ f.pull = p /\ e.merged = TRUE /\ f.merged = TRUE /\ e.head = f.head
    BY <1>2, ZenonT(40) DEF Carries, EventRight
  <1> QED
    BY <1>2, <1>3, SMTT(40)

LEMMA WebhookReadStep ==
  ASSUME RecoveryInv, NEW e \in events, WebhookRead(e) PROVE RecoveryInv'
  <1>1. /\ events' = events \ {e} /\ UNCHANGED <<row, attempts, approval, authority, pulls, run>>
        /\ e.kind \in {"synchronize", "closed"}
    BY SMTT(40) DEF WebhookRead
  <1>2. ASSUME row.status = "pr_open", Hold(e) PROVE RecoveryInv'
    <2>1. PICK s \in Row : s = row
      BY DEF RecoveryInv, TypeOK
    <2>2. HoldSeen(e, s) /\ e \in Event
      BY <1>2, <2>1, SMTT(40) DEF Hold, RecoveryInv, TypeOK
    <2>3. ASSUME NEW p \in Pull, Carries(e, p)
          PROVE  (\A t \in tasks : ~Carries(t.evt, p)) /\ (\A f \in events' : ~Carries(f, p))
      <3>1. \A f \in events : Carries(f, p) => f = e
        BY <2>2, <2>3, SameCarrier, SMTT(40) DEF RecoveryInv, TypeOK
      <3> QED
        BY <1>1, <2>3, <3>1 DEF RecoveryInv, OneCarrier
    <2>4. ASSUME NEW n PROVE TaskRight([evt |-> e, seen |-> s, copy |-> n], row, pulls, run, attempts)
      BY <1>1, <1>2, <2>1, ZenonT(40) DEF TaskRight, RecoveryInv
    <2> QED
      BY <1>1, <2>2, <2>3, <2>4, HoldStep
  <1>3. CASE UNCHANGED tasks
    BY <1>1, <1>3, DroppedStep
  <1> QED
    BY <1>2, <1>3 DEF WebhookRead

-----------------------------------------------------------------------------
(* Handlers that write. *)

\* A write of the row under its expected status; R are the runs afterwards.
LEMMA CasMeans ==
  ASSUME RecoveryInv, NEW expected, NEW status \in Status, NEW action \in Action \cup {None},
         NEW lc \in Lifecycle, Cas(expected, status, action, lc), NEW R,
         row.status = expected =>
             RowRight([status |-> status, action |-> action, lc |-> lc], pulls, R, attempts),
         row.status # expected => R = run
  PROVE  row' \in Row /\ RowRight(row', pulls, R, attempts) /\ (row' = row \/ row.status = expected)
  <1>1. row \in Row /\ RowRight(row, pulls, run, attempts)
    BY ZenonT(40) DEF RecoveryInv, TypeOK
  <1>2. CASE row.status = expected
    BY <1>2 DEF Cas, Row
  <1>3. CASE row.status # expected
    BY <1>1, <1>3 DEF Cas
  <1> QED
    BY <1>2, <1>3, SMTT(40)

\* A handler that writes the row at most, and emits nothing.
LEMMA RowWriteStep ==
  ASSUME RecoveryInv, NEW t \in tasks, tasks' = tasks \ {t},
         UNCHANGED <<attempts, approval, authority, events, pulls, run>>,
         row' \in Row, RowRight(row', pulls, run, attempts),
         row' = row \/ row.status # "verification_pending" \/ t.evt.kind = "evidence"
  PROVE  RecoveryInv'
  BY WriteStep, ZenonT(40) DEF RecoveryInv, TypeOK

LEMMA TaskTyped ==
  ASSUME RecoveryInv, NEW t \in tasks
  PROVE  /\ t.evt \in Event \cup Request /\ t.seen \in Row /\ t.seen.lc \in Lifecycle
         /\ t.seen.lc.attempt \in 0..MaxAttempt /\ t.seen.lc.number \in 0..MaxAttempt
         /\ row \in Row /\ row.action \in Action \cup {None} /\ attempts \in Nat
         /\ TaskRight(t, row, pulls, run, attempts)
         /\ RowRight(t.seen, pulls, run, attempts)
         /\ RowRight(row, pulls, run, attempts)
  <1>1. t \in [evt: Event \cup Request, seen: Row, copy: 0..MaxRequest] /\ row \in Row
    BY Zenon DEF RecoveryInv, TypeOK
  <1>2. attempts \in Nat
    BY DEF RecoveryInv, TypeOK
  <1>3. t.evt \in Event \cup Request /\ t.seen \in Row
    BY <1>1
  <1> QED
    BY <1>1, <1>2, <1>3, ZenonT(40) DEF Row, Lifecycle, RecoveryInv, TaskRight

LEMMA SafePrCreatedStep ==
  ASSUME RecoveryInv, NEW t \in tasks, OnSafePrCreated(t) PROVE RecoveryInv'
  <1>1. /\ t.evt.kind = "created" /\ tasks' = tasks \ {t}
        /\ UNCHANGED <<attempts, approval, authority, events, pulls, run>>
    BY Zenon DEF OnSafePrCreated
  <1>2. CASE Reopen(t.seen.action)
    BY <1>1, <1>2, ReopenMeans, RowWriteStep, SMTT(40)
  <1>3. ASSUME NEW blocked \in BOOLEAN,
               Cas("selected", "pr_open", row.action,
                   [NoLifecycle EXCEPT !.attempt = t.seen.lc.attempt, !.number = t.seen.lc.number,
                                       !.pull = t.evt.pull, !.head = t.evt.head, !.blocked = blocked])
        PROVE  RecoveryInv'
    <2> DEFINE lc == [NoLifecycle EXCEPT !.attempt = t.seen.lc.attempt, !.number = t.seen.lc.number,
                                         !.pull = t.evt.pull, !.head = t.evt.head, !.blocked = blocked]
    <2>1. t.evt.pull \in Pull /\ t.evt.head \in Head
      BY <1>1, TaskTyped, EventFields
    <2>2. lc \in Lifecycle /\ lc.run = None /\ lc.pull # None
          /\ lc.attempt = t.seen.lc.attempt /\ lc.number = t.seen.lc.number
      BY <2>1, TaskTyped, NoLifecycleTyped, Zenon DEF NoLifecycle, Lifecycle
    <2> HIDE DEF lc
    <2>3. row.status = "selected" =>
              RowRight([status |-> "pr_open", action |-> row.action, lc |-> lc], pulls, run, attempts)
      BY <2>2, TaskTyped, Zenon DEF RowRight
    <2>4. Cas("selected", "pr_open", row.action, lc) /\ "pr_open" \in Status
      BY <1>3, SMTT(40) DEF lc, Status
    <2>5. row' \in Row /\ RowRight(row', pulls, run, attempts) /\ (row' = row \/ row.status = "selected")
      BY <2>2, <2>3, <2>4, TaskTyped, CasMeans, ZenonT(40)
    <2> QED
      BY <1>1, <2>5, RowWriteStep, SMTT(40)
  <1> QED
    BY <1>2, <1>3, Zenon DEF OnSafePrCreated

\* The failures that keep the rest of the lifecycle.
LEMMA WithFailure ==
  ASSUME NEW lc \in Lifecycle, NEW f \in {"none", "rejected", "safe_pr", "deploy", "expired"}
  PROVE  /\ [lc EXCEPT !.failure = f] \in Lifecycle
         /\ [lc EXCEPT !.failure = f].failure = f
         /\ [lc EXCEPT !.failure = f].run = lc.run /\ [lc EXCEPT !.failure = f].pull = lc.pull
         /\ [lc EXCEPT !.failure = f].head = lc.head /\ [lc EXCEPT !.failure = f].blocked = lc.blocked
         /\ [lc EXCEPT !.failure = f].attempt = lc.attempt /\ [lc EXCEPT !.failure = f].number = lc.number
  BY SMTT(40) DEF Lifecycle

LEMMA SafePrFailedStep ==
  ASSUME RecoveryInv, NEW t \in tasks, OnSafePrFailed(t) PROVE RecoveryInv'
  <1> DEFINE lc == [t.seen.lc EXCEPT !.failure = "safe_pr"]
  <1>1. /\ t.evt.kind = "pr_failed" /\ tasks' = tasks \ {t} /\ Cas("selected", "failed", row.action, lc)
        /\ UNCHANGED <<attempts, approval, authority, events, pulls, run>>
    BY DEF OnSafePrFailed
  <1>2. /\ lc \in Lifecycle /\ lc.failure = "safe_pr" /\ lc.run = t.seen.lc.run
        /\ lc.attempt = t.seen.lc.attempt /\ lc.number = t.seen.lc.number
    BY TaskTyped, WithFailure, Zenon
  <1>3. t.seen.status = "selected" /\ t.seen.lc.run = None
    BY <1>1, TaskTyped, Zenon DEF TaskRight, RowRight
  <1> HIDE DEF lc
  <1>4. row.status = "selected" =>
            RowRight([status |-> "failed", action |-> row.action, lc |-> lc], pulls, run, attempts)
    BY <1>2, <1>3, TaskTyped, Zenon DEF RowRight
  <1>5. row' \in Row /\ RowRight(row', pulls, run, attempts) /\ (row' = row \/ row.status = "selected")
    BY <1>1, <1>2, <1>4, TaskTyped, CasMeans, Zenon DEF Status
  <1> QED
    BY <1>1, <1>5, RowWriteStep, ZenonT(40)

LEMMA RejectMeans ==
  ASSUME RecoveryInv, NEW t \in tasks, t.seen.status = "pr_open", RejectPull(t)
  PROVE  /\ row' \in Row /\ RowRight(row', pulls, run, attempts)
         /\ row' = row \/ row.status = "pr_open"
  <1> DEFINE lc == [t.seen.lc EXCEPT !.failure = "rejected"]
  <1>1. /\ lc \in Lifecycle /\ lc.run = t.seen.lc.run
        /\ lc.attempt = t.seen.lc.attempt /\ lc.number = t.seen.lc.number
    BY TaskTyped, WithFailure, Zenon
  <1>2. t.seen.lc.run = None
    BY TaskTyped, Zenon DEF RowRight
  <1>3. Cas("pr_open", "selection_requested", None, lc)
    BY DEF RejectPull
  <1> HIDE DEF lc
  <1>4. RowRight([status |-> "selection_requested", action |-> None, lc |-> lc], pulls, run, attempts)
    BY <1>1, <1>2, TaskTyped, ZenonT(40) DEF RowRight
  <1> QED
    BY <1>1, <1>3, <1>4, CasMeans, Zenon DEF Status

LEMMA WebhookRejectsStep ==
  ASSUME RecoveryInv, NEW t \in tasks, WebhookRejects(t) PROVE RecoveryInv'
  <1>1. t.seen.status = "pr_open"
    BY TaskTyped DEF WebhookRejects, TaskRight
  <1> QED
    BY <1>1, RejectMeans, RowWriteStep, SMTT(40) DEF WebhookRejects

LEMMA WebhookReadExactStep ==
  ASSUME RecoveryInv, NEW t \in tasks, WebhookReadExact(t) PROVE RecoveryInv'
  <1>1. /\ t.evt.kind = "closed" /\ t.evt.merged /\ t.seen.status = "pr_open"
        /\ UNCHANGED <<attempts, approval, authority, events, pulls, run>>
    BY TaskTyped, SMTT(40) DEF WebhookReadExact, TaskRight
  <1>2. CASE row.status = "pr_open" /\ row.lc.pull = t.evt.pull /\ row.lc.head = t.evt.head
    <2>1. PICK q : q = [kind |-> "merge", pull |-> t.evt.pull, head |-> t.evt.head]
      BY Zenon
    <2>2. PICK x : x = [evt |-> q, seen |-> row, copy |-> t.copy]
      BY ZenonT(40)
    <2>3. t.evt.pull \in Pull /\ t.evt.head \in Head /\ t.copy \in 0..MaxRequest
      BY <1>1, TaskTyped, EventFields, ZenonT(40) DEF RecoveryInv, TypeOK
    <2>4. q \in Event \cup Request
      BY <2>1, <2>3, ZenonT(40) DEF Request
    <2>5. /\ x \in [evt: Event \cup Request, seen: Row, copy: 0..MaxRequest]
          /\ x.evt = q /\ x.seen = row /\ q.kind = "merge" /\ q.pull = t.evt.pull /\ q.head = t.evt.head
      BY <2>1, <2>2, <2>3, <2>4, TaskTyped, SMTT(40)
    <2>6. tasks' = (tasks \ {t}) \cup {x} /\ row' = row
      BY <1>2, <2>1, <2>2, SMTT(40) DEF WebhookReadExact
    <2>7. TypeOK' /\ Forward
      <3>1. tasks' \subseteq [evt: Event \cup Request, seen: Row, copy: 0..MaxRequest]
        BY <2>5, <2>6, Zenon DEF RecoveryInv, TypeOK
      <3>2. TypeOK'
        BY <1>1, <2>6, <3>1, SMTT(40) DEF RecoveryInv, TypeOK
      <3> QED
        BY <1>1, <3>2 DEF RecoveryInv, TypeOK, Forward
    <2>8. \A p \in Pull : Carries(q, p) <=> Carries(t.evt, p)
      BY <1>1, <2>5, SMTT(40) DEF Carries
    <2>9. EventRight(q, pulls, run)
      BY <2>5, <2>8, TaskTyped, ZenonT(40) DEF TaskRight, EventRight
    <2>10. TaskRight(x, row, pulls, run, attempts)
      BY <1>2, <2>5, <2>9, TaskTyped, ZenonT(40) DEF TaskRight
    <2>11. OneCarrier(events', tasks')
      BY <1>1, <2>5, <2>6, <2>8, SMTT(40) DEF RecoveryInv, OneCarrier
    <2>12. SlotsLeft(tasks', attempts')
      <3>1. SlotsLeft(tasks \ {t}, attempts)
        BY TaskTyped, SlotsDrop, ZenonT(40) DEF RecoveryInv
      <3>2. x \notin Slots({x})
        BY <2>5, SMTT(40) DEF Slots
      <3>3. attempts \in Nat
        BY TaskTyped
      <3>4. SlotsLeft((tasks \ {t}) \cup {x}, attempts)
        BY <3>1, <3>2, <3>3, SlotsAdd, ZenonT(40)
      <3> QED
        BY <1>1, <2>6, <3>4, ZenonT(40)
    <2> QED
      BY <1>1, <2>6, <2>7, <2>10, <2>11, <2>12, Moves, ZenonT(40) DEF RecoveryInv
  <1>3. CASE ~(row.status = "pr_open" /\ row.lc.pull = t.evt.pull /\ row.lc.head = t.evt.head)
    BY <1>1, <1>3, RejectMeans, RowWriteStep DEF WebhookReadExact
  <1> QED
    BY <1>2, <1>3, SMTT(40)
=================================================================================
