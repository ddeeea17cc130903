-------------------------- MODULE EventRuntimeProofs --------------------------
(***************************************************************************)
(* Proofs about EventRuntime for every set of events, messages and workers  *)
(* and every timer value, provided the timers satisfy SafeTiming and a      *)
(* COMMIT that raises has not taken effect.                                 *)
(***************************************************************************)
EXTENDS EventRuntime, TLAPS

\* The inductive invariant.  ExclusiveClaim holds because a second claim needs
\* a row older than the stale window (ClaimIsFresh says it is not), and
\* ClaimIsFresh survives another worker's step because of ExclusiveClaim.
IInv ==
    /\ TypeOK
    /\ ClaimIsFresh
    /\ ExclusiveClaim
    /\ LedgerMatchesEffects
    /\ AckedIsAccountedFor
    /\ DeadLetterIsRecorded

\* The message a busy worker holds is in the stream and names an event.
LEMMA JobInStream ==
    ASSUME TypeOK, NEW w \in Worker, pc[w] # "idle"
    PROVE  /\ job[w] \in published
           /\ job[w] \in Message
           /\ job[w].event \in Event
  BY DEF TypeOK, Message

\* The age of a claim never exceeds the stale window while its worker acts.
LEMMA ClaimWithinWindow ==
    ASSUME SafeTiming, TypeOK, ClaimIsFresh, NEW w \in Worker, pc[w] \in Claiming
    PROVE  age[job[w].event] <= Stale
  <1>1. job[w].event \in Event
    BY JobInStream DEF Claiming
  <1>2. age[job[w].event] \in Nat /\ run[w] \in Nat
    BY <1>1, ConstantsAssumption DEF TypeOK
  <1> QED
    BY <1>2, ConstantsAssumption
       DEF SafeTiming, ClaimIsFresh, Claiming, Limit, Budget

\* Initially no event is known and every worker is idle.
LEMMA InitInvariant == Init => IInv
  BY ConstantsAssumption
     DEF Init, IInv, TypeOK, ClaimIsFresh, ExclusiveClaim, Holds, Claiming,
         LedgerMatchesEffects, AckedIsAccountedFor, DeadLetterIsRecorded,
         Status, Phase, Terminal

\* TypeOK is preserved by every step.
LEMMA TypeStep == TypeOK /\ [Next]_vars => TypeOK'
  <1> SUFFICES ASSUME TypeOK, [Next]_vars PROVE TypeOK' OBVIOUS
  <1> USE ConstantsAssumption DEF TypeOK, Phase, Claiming, Status, Terminal,
          Saturate, streamVars, ledgerVars, dlqVars, workerVars, GoTo, Release,
          SetRow, Decoded
  <1>1. ASSUME NEW m \in Message, Publish(m) PROVE TypeOK'
    BY <1>1 DEF Publish
  <1>2. ASSUME NEW w \in Worker, NEW m \in Message, Fetch(w, m) PROVE TypeOK'
    BY <1>2 DEF Fetch
  <1>3. ASSUME NEW w \in Worker, Work(w) \/ Crash(w) PROVE TypeOK'
    <2>0. pc[w] # "idle" => job[w] \in published /\ job[w] \in Message /\ job[w].event \in Event
      BY JobInStream
    <2>1. CASE CaptureRaw(w)
      BY <2>0, <2>1 DEF CaptureRaw
    <2>2. CASE Claim(w)
      BY <2>0, <2>2 DEF Claim
    <2>3. CASE Commit(w)
      BY <2>0, <2>3 DEF Commit, HandlerCommits
    <2>4. CASE CommitUnknown(w)
      BY <2>0, <2>4 DEF CommitUnknown, HandlerCommits, AfterFailure
    <2>5. CASE RecordDeadLetter(w)
      BY <2>0, <2>5 DEF RecordDeadLetter
    <2>6. CASE CloseDeadLetter(w) \/ Retry(w)
      BY <2>0, <2>6 DEF CloseDeadLetter, Retry
    <2>7. CASE Ack(w) \/ Nak(w) \/ Crash(w)
      BY <2>0, <2>7 DEF Ack, Nak, Crash
    <2>8. CASE SkipTerminal(w) \/ Blocked(w) \/ HandlerFails(w)
               \/ EmitDeadLetter(w) \/ CaptureFails(w) \/ LedgerError(w)
               \/ AckFails(w)
      BY <2>8 DEF SkipTerminal, Blocked, HandlerFails, EmitDeadLetter,
                  CaptureFails, LedgerError, AckFails, AfterFailure
    <2> QED
      BY <1>3, <2>1, <2>2, <2>3, <2>4, <2>5, <2>6, <2>7, <2>8 DEF Work
  <1>4. CASE Tick
    BY <1>4 DEF Tick
  <1>5. CASE UNCHANGED vars
    BY <1>5 DEF vars
  <1> QED
    BY <1>1, <1>2, <1>3, <1>4, <1>5 DEF Next

\* While a worker acts on its claim nobody else may claim the event or acts
\* on it.
LEMMA ClaimExcludesOthers ==
    ASSUME SafeTiming, IInv, NEW w \in Worker, pc[w] \in Claiming
    PROVE  /\ status[job[w].event] = "processing"
           /\ ~ Claimable(job[w].event)
           /\ \A v \in Worker \ {w} : pc[v] \in Claiming =>
                  job[v].event # job[w].event
  <1>1. job[w].event \in Event
    BY JobInStream DEF IInv, Claiming
  <1>2. age[job[w].event] <= Stale /\ age[job[w].event] \in Nat
    BY <1>1, ClaimWithinWindow, ConstantsAssumption DEF IInv, TypeOK
  <1>3. \A v \in Worker \ {w} : pc[v] \in Claiming =>
            job[v].event # job[w].event
    BY <1>1 DEF IInv, ExclusiveClaim, Holds
  <1> QED
    BY <1>1, <1>2, <1>3, ConstantsAssumption DEF IInv, ClaimIsFresh, Claimable

\* Every step of the runtime preserves the inductive invariant.
LEMMA InvariantStep ==
    ASSUME SafeTiming, ~ AmbiguousCommit, IInv, [Next]_vars
    PROVE  IInv'
  <1>1. TypeOK /\ TypeOK'
    BY TypeStep DEF IInv
  <1> USE ConstantsAssumption, <1>1
  <1> USE DEF ClaimIsFresh, ExclusiveClaim, Holds, LedgerMatchesEffects,
              AckedIsAccountedFor, DeadLetterIsRecorded, Claiming, Terminal,
              Saturate, streamVars, ledgerVars, dlqVars, workerVars, GoTo,
              Release, SetRow, Decoded
  <1>2. ASSUME NEW m \in Message, Publish(m) PROVE IInv'
    BY <1>2 DEF Publish, IInv
  <1>3. ASSUME NEW w \in Worker, NEW m \in Message, Fetch(w, m) PROVE IInv'
    BY <1>3 DEF Fetch, IInv, TypeOK
  <1>4. CASE Tick
    <2>1. ClaimIsFresh'
      <3> SUFFICES ASSUME NEW w \in Worker, pc'[w] \in Claiming
                   PROVE  /\ status'[job'[w].event] = "processing"
                          /\ job'[w] \notin Undecodable
                          /\ run'[w] <= Limit(pc'[w])
                          /\ age'[job'[w].event] <= Budget(pc'[w]) + run'[w]
        OBVIOUS
      <3>1. pc[w] \in Claiming /\ pc'[w] = pc[w] /\ job'[w] = job[w]
        BY <1>4 DEF Tick
      <3>2. job[w].event \in Event
        BY <3>1, JobInStream
      <3>3. run'[w] = run[w] + 1 /\ run[w] < Limit(pc[w])
        BY <1>4, <3>1 DEF Tick
      <3>4. age'[job[w].event] <= age[job[w].event] + 1
        BY <1>4, <3>2 DEF Tick, TypeOK
      <3>5. age[job[w].event] \in Nat /\ age'[job[w].event] \in Nat
            /\ run[w] \in Nat /\ Limit(pc[w]) \in Nat /\ Budget(pc[w]) \in Nat
        BY <3>2 DEF TypeOK, Limit, Budget
      <3>6. age[job[w].event] <= Budget(pc[w]) + run[w]
        BY <3>1 DEF IInv
      <3>7. age'[job[w].event] <= Budget(pc[w]) + (run[w] + 1)
        BY <3>4, <3>5, <3>6
      <3>8. run[w] + 1 <= Limit(pc[w])
        BY <3>3, <3>5
      <3>9. status'[job[w].event] = "processing" /\ job[w] \notin Undecodable
        BY <1>4, <3>1 DEF Tick, IInv
      <3> QED
        BY <3>1, <3>3, <3>7, <3>8, <3>9
    <2> QED
      BY <1>4, <2>1 DEF Tick, IInv
  <1>5. CASE UNCHANGED vars
    BY <1>5 DEF vars, IInv
  <1>6. ASSUME NEW w \in Worker, Work(w) \/ Crash(w) PROVE IInv'
    <2> DEFINE e == job[w].event
    <2>0. pc[w] # "idle" => job[w] \in published /\ job[w] \in Message /\ e \in Event
      BY JobInStream
    <2>1. CASE CaptureRaw(w)
      BY <2>0, <2>1 DEF CaptureRaw, IInv, TypeOK
    <2>2. CASE Claim(w)
      <3>1. /\ pc[w] = "fetched" /\ job[w] \notin Undecodable
            /\ Claimable(e) /\ e \in Event
            /\ job' = job /\ pc' = [pc EXCEPT ![w] = "handling"]
            /\ status' = [status EXCEPT ![e] = "processing"]
        BY <2>0, <2>2 DEF Claim
      <3>2. \A v \in Worker : pc[v] \in Claiming => job[v].event # e
        BY <3>1, ClaimExcludesOthers
      <3>3. ClaimIsFresh'
        BY <2>2, <3>1, <3>2, JobInStream DEF Claim, IInv, TypeOK, Limit, Budget
      <3>4. ExclusiveClaim'
        BY <3>1, <3>2 DEF IInv, TypeOK
      <3>5. LedgerMatchesEffects'
        BY <2>2, <3>1 DEF Claim, Claimable, IInv, TypeOK
      <3>7. AckedIsAccountedFor'
        BY <2>2, <3>1 DEF Claim, Claimable, IInv, TypeOK
      <3>6. DeadLetterIsRecorded'
        BY <2>2, <3>1, <3>2 DEF Claim, IInv, TypeOK, Claimable
      <3> QED
        BY <3>3, <3>4, <3>5, <3>6, <3>7 DEF IInv
    <2>3. CASE Commit(w)
      <3>1. /\ pc[w] = "handling" /\ e \in Event
            /\ pc' = [pc EXCEPT ![w] = "acking"] /\ run' = [run EXCEPT ![w] = 0] /\ job' = job
            /\ status' = [status EXCEPT ![e] = "processed"] /\ age' = [age EXCEPT ![e] = 0]
            /\ effects' = [effects EXCEPT ![e] = Saturate(@, 2)]
            /\ UNCHANGED <<streamVars, dlqVars, attempts, tries>>
        BY <2>0, <2>3 DEF Commit, HandlerCommits
      <3>2. \A v \in Worker \ {w} : pc[v] \in Claiming => job[v].event # e
        BY <3>1, ClaimExcludesOthers
      <3>3. status[e] = "processing" /\ job[w] \notin Undecodable
        BY <3>1 DEF IInv
      <3>4. ClaimIsFresh'
        BY <3>1, <3>2 DEF IInv, TypeOK
      <3>5. ExclusiveClaim'
        BY <3>1 DEF IInv, TypeOK
      <3>6. LedgerMatchesEffects'
        BY <3>1, <3>3 DEF IInv, TypeOK
      <3>7. AckedIsAccountedFor'
        BY <3>1, <3>3 DEF IInv, TypeOK
      <3>8. DeadLetterIsRecorded'
        BY <3>1, <3>2, <3>3 DEF IInv, TypeOK
      <3> QED
        BY <3>4, <3>5, <3>6, <3>7, <3>8 DEF IInv
    <2>4. CASE CommitUnknown(w)
      BY <2>4 DEF CommitUnknown
    <2>5. CASE RecordDeadLetter(w)
      <3>1. /\ pc[w] = "capturing" /\ e \in Event
            /\ pc' = [pc EXCEPT ![w] = "emitting"]
            /\ deadRows' = [deadRows EXCEPT ![e] = Saturate(@, 2)]
            /\ UNCHANGED <<streamVars, ledgerVars, rawRows, job, run, tries>>
        BY <2>0, <2>5 DEF RecordDeadLetter
      <3>2. ClaimIsFresh'
        BY <3>1 DEF IInv, TypeOK, Limit, Budget
      <3>3. ExclusiveClaim'
        BY <3>1 DEF IInv, TypeOK
      <3>4. LedgerMatchesEffects' /\ AckedIsAccountedFor'
        BY <3>1 DEF IInv, TypeOK
      <3>5. DeadLetterIsRecorded'
        BY <3>1 DEF IInv, TypeOK
      <3> QED
        BY <3>2, <3>3, <3>4, <3>5 DEF IInv
    <2>6. CASE CloseDeadLetter(w)
      <3>1. /\ pc[w] = "closing" /\ e \in Event
            /\ pc' = [pc EXCEPT ![w] = "acking"] /\ run' = [run EXCEPT ![w] = 0] /\ job' = job
            /\ status' = [status EXCEPT ![e] = "dead_lettered"] /\ age' = [age EXCEPT ![e] = 0]
            /\ effects' = effects
            /\ UNCHANGED <<streamVars, dlqVars, attempts, tries>>
        BY <2>0, <2>6 DEF CloseDeadLetter
      <3>2. \A v \in Worker \ {w} : pc[v] \in Claiming => job[v].event # e
        BY <3>1, ClaimExcludesOthers
      <3>3. status[e] = "processing" /\ job[w] \notin Undecodable
        BY <3>1 DEF IInv
      <3>4. ClaimIsFresh'
        BY <3>1, <3>2 DEF IInv, TypeOK
      <3>5. ExclusiveClaim'
        BY <3>1 DEF IInv, TypeOK
      <3>6. LedgerMatchesEffects'
        BY <3>1, <3>3 DEF IInv, TypeOK
      <3>7. AckedIsAccountedFor'
        BY <3>1, <3>3 DEF IInv, TypeOK
      <3>8. DeadLetterIsRecorded'
        BY <3>1, <3>2, <3>3 DEF IInv, TypeOK
      <3> QED
        BY <3>4, <3>5, <3>6, <3>7, <3>8 DEF IInv
    <2>7. CASE Retry(w)
      <3>1. /\ pc[w] = "reverting" /\ e \in Event
            /\ pc' = [pc EXCEPT ![w] = "naking"] /\ run' = [run EXCEPT ![w] = 0] /\ job' = job
            /\ status' = [status EXCEPT ![e] = "retrying"] /\ age' = [age EXCEPT ![e] = 0]
            /\ effects' = effects
            /\ UNCHANGED <<streamVars, dlqVars, attempts, tries>>
        BY <2>0, <2>7 DEF Retry
      <3>2. \A v \in Worker \ {w} : pc[v] \in Claiming => job[v].event # e
        BY <3>1, ClaimExcludesOthers
      <3>3. status[e] = "processing" /\ job[w] \notin Undecodable
        BY <3>1 DEF IInv
      <3>4. ClaimIsFresh'
        BY <3>1, <3>2 DEF IInv, TypeOK
      <3>5. ExclusiveClaim'
        BY <3>1 DEF IInv, TypeOK
      <3>6. LedgerMatchesEffects'
        BY <3>1, <3>3 DEF IInv, TypeOK
      <3>7. AckedIsAccountedFor'
        BY <3>1, <3>3 DEF IInv, TypeOK
      <3>8. DeadLetterIsRecorded'
        BY <3>1, <3>2, <3>3 DEF IInv, TypeOK
      <3> QED
        BY <3>4, <3>5, <3>6, <3>7, <3>8 DEF IInv
    <2>8. CASE Ack(w) \/ Nak(w) \/ Crash(w)
      <3>1. /\ job' = [job EXCEPT ![w] = NoMessage]
            /\ pc' = [pc EXCEPT ![w] = "idle"]
            /\ tries' = [tries EXCEPT ![w] = 0]
            /\ run' = [run EXCEPT ![w] = 0]
            /\ UNCHANGED <<ledgerVars, dlqVars>>
        BY <2>8 DEF Ack, Nak, Crash
      <3>2. acked' \subseteq acked \cup {job[v] : v \in {u \in Worker : pc[u] = "acking"}}
        BY <2>8 DEF Ack, Nak, Crash
      <3>3. AckedIsAccountedFor'
        BY <3>1, <3>2 DEF IInv, TypeOK
      <3> QED
        BY <3>1, <3>3 DEF IInv, TypeOK
    <2>9. CASE SkipTerminal(w) \/ Blocked(w) \/ LedgerError(w) \/ AckFails(w)
      <3>1. CASE SkipTerminal(w)
        BY <2>0, <3>1 DEF SkipTerminal, IInv, TypeOK
      <3>2. CASE Blocked(w)
        BY <2>0, <3>2 DEF Blocked, IInv, TypeOK
      <3>3. CASE LedgerError(w)
        BY <2>0, <3>3 DEF LedgerError, IInv, TypeOK
      <3>4. CASE AckFails(w)
        BY <2>0, <3>4 DEF AckFails, IInv, TypeOK
      <3> QED
        BY <2>9, <3>1, <3>2, <3>3, <3>4
    <2>10. CASE HandlerFails(w) \/ EmitDeadLetter(w) \/ CaptureFails(w)
      <3>1. CASE HandlerFails(w)
        <4>1. /\ pc[w] = "handling" /\ pc' = [pc EXCEPT ![w] = AfterFailure(w)]
              /\ run' = [run EXCEPT ![w] = 0]
              /\ UNCHANGED <<streamVars, ledgerVars, dlqVars, job, tries>>
          BY <3>1 DEF HandlerFails
        <4>2. ClaimIsFresh'
          BY <2>0, <4>1 DEF IInv, TypeOK, Limit, Budget, AfterFailure
        <4>3. ExclusiveClaim'
          BY <4>1 DEF IInv, TypeOK, AfterFailure
        <4>4. LedgerMatchesEffects' /\ AckedIsAccountedFor'
          BY <4>1 DEF IInv, TypeOK, AfterFailure
        <4>5. DeadLetterIsRecorded'
          BY <4>1 DEF IInv, TypeOK, AfterFailure
        <4> QED
          BY <4>2, <4>3, <4>4, <4>5 DEF IInv
      <3>2. CASE EmitDeadLetter(w)
        <4>1. /\ pc[w] = "emitting" /\ pc' = [pc EXCEPT ![w] = "closing"]
              /\ run' = [run EXCEPT ![w] = 0]
              /\ UNCHANGED <<streamVars, ledgerVars, dlqVars, job, tries>>
          BY <3>2 DEF EmitDeadLetter
        <4>2. ClaimIsFresh'
          BY <2>0, <4>1 DEF IInv, TypeOK, Limit, Budget
        <4>3. ExclusiveClaim'
          BY <4>1 DEF IInv, TypeOK
        <4>4. LedgerMatchesEffects' /\ AckedIsAccountedFor'
          BY <4>1 DEF IInv, TypeOK
        <4>5. DeadLetterIsRecorded'
          BY <4>1 DEF IInv, TypeOK
        <4> QED
          BY <4>2, <4>3, <4>4, <4>5 DEF IInv
      <3>3. CASE CaptureFails(w)
        <4>1. /\ pc[w] \in {"capturing", "emitting"} /\ pc' = [pc EXCEPT ![w] = "reverting"]
              /\ run' = [run EXCEPT ![w] = 0]
              /\ UNCHANGED <<streamVars, ledgerVars, dlqVars, job, tries>>
          BY <3>3 DEF CaptureFails
        <4>2. ClaimIsFresh'
          BY <2>0, <4>1 DEF IInv, TypeOK, Limit, Budget
        <4>3. ExclusiveClaim'
          BY <4>1 DEF IInv, TypeOK
        <4>4. LedgerMatchesEffects' /\ AckedIsAccountedFor'
          BY <4>1 DEF IInv, TypeOK
        <4>5. DeadLetterIsRecorded'
          BY <4>1 DEF IInv, TypeOK
        <4> QED
          BY <4>2, <4>3, <4>4, <4>5 DEF IInv
      <3> QED
        BY <2>10, <3>1, <3>2, <3>3
    <2> QED
      BY <1>6, <2>1, <2>2, <2>3, <2>4, <2>5, <2>6, <2>7, <2>8, <2>9, <2>10 DEF Work
  <1> QED
    BY <1>2, <1>3, <1>4, <1>5, <1>6 DEF Next

\* Every variable keeps its type, whatever the timers are and even if commits
\* are ambiguous.
THEOREM TypeCorrect == Spec => []TypeOK
  <1>1. Init => TypeOK
    BY InitInvariant DEF IInv
  <1> QED
    BY <1>1, TypeStep, PTL DEF Spec

\* With timers in a safe order the inductive invariant always holds.
THEOREM Invariance ==
    ASSUME SafeTiming, ~ AmbiguousCommit
    PROVE  Spec => []IInv
  <1>1. IInv /\ [Next]_vars => IInv'
    BY InvariantStep
  <1> QED
    BY <1>1, InitInvariant, PTL DEF Spec

\* validate_event_timing_contract's promise, under the timing it should ask
\* for: two workers never process the same event at the same time.
THEOREM ExclusiveProcessing ==
    ASSUME SafeTiming, ~ AmbiguousCommit
    PROVE  Spec => []ExclusiveClaim
  <1>1. IInv => ExclusiveClaim
    BY DEF IInv
  <1> QED
    BY <1>1, Invariance, PTL

\* Work is committed exactly once for a "processed" row and never otherwise.
THEOREM ExactlyOneEffect ==
    ASSUME SafeTiming, ~ AmbiguousCommit
    PROVE  Spec => []LedgerMatchesEffects
  <1>1. IInv => LedgerMatchesEffects
    BY DEF IInv
  <1> QED
    BY <1>1, Invariance, PTL

\* No acknowledged message is lost: its event was processed or dead-lettered.
THEOREM NothingLost ==
    ASSUME SafeTiming, ~ AmbiguousCommit
    PROVE  Spec => []AckedIsAccountedFor
  <1>1. IInv => AckedIsAccountedFor
    BY DEF IInv
  <1> QED
    BY <1>1, Invariance, PTL

\* The age of a claim stays within the budget of what its worker is doing, so a
\* claim that is still worked on is never stale.
THEOREM ClaimsStayFresh ==
    ASSUME SafeTiming, ~ AmbiguousCommit
    PROVE  Spec => []ClaimIsFresh
  <1>1. IInv => ClaimIsFresh
    BY DEF IInv
  <1> QED
    BY <1>1, Invariance, PTL

\* An event closed as dead-lettered used up its attempts and left its row in
\* event_dead_letters first (fail), whichever workers died on the way.
THEOREM DeadLettersAreRecorded ==
    ASSUME SafeTiming, ~ AmbiguousCommit
    PROVE  Spec => []DeadLetterIsRecorded
  <1>1. IInv => DeadLetterIsRecorded
    BY DEF IInv
  <1> QED
    BY <1>1, Invariance, PTL

-----------------------------------------------------------------------------

\* No event has an outcome before it is published.
LEMMA PromiseInit == Init => Promise!Init
  BY DEF Init, Promise!Init, Outcome

\* Every step of the runtime offers, performs or gives up one event, or
\* changes no outcome.
LEMMA PromiseStep ==
    ASSUME SafeTiming, ~ AmbiguousCommit, IInv, [Next]_vars
    PROVE  [Promise!Next]_(Promise!vars)
  <1> USE DEF streamVars, ledgerVars, dlqVars, workerVars
  <1>1. ASSUME NEW m \in Message, Publish(m) PROVE [Promise!Next]_(Promise!vars)
    <2>0. m.event \in Event
      BY DEF Message
    <2>1. UNCHANGED <<status, effects>> /\ published' = published \cup {m}
      BY <1>1 DEF Publish
    <2>2. \A x \in Event : x # m.event \/ m \in Undecodable => Outcome(x)' = Outcome(x)
      BY <2>1 DEF Outcome
    <2>3. CASE m \notin Undecodable /\ Outcome(m.event) = "new"
      <3>1. Outcome(m.event)' = "open"
        BY <2>1, <2>3 DEF Outcome
      <3>2. Promise!Offer(m.event)
        BY <2>0, <2>1, <2>2, <2>3, <3>1 DEF Promise!Offer
      <3> QED
        BY <2>0, <3>2 DEF Promise!Next
    <2>4. CASE m \in Undecodable \/ Outcome(m.event) # "new"
      <3>1. \A x \in Event : Outcome(x)' = Outcome(x)
        BY <2>1, <2>2, <2>4 DEF Outcome
      <3> QED
        BY <2>1, <3>1 DEF Promise!vars
    <2> QED
      BY <2>3, <2>4
  <1>2. ASSUME NEW w \in Worker, NEW e \in Event, NEW s \in Terminal,
               Holds(w, e),
               published' = published,
               status' = [status EXCEPT ![e] = s],
               effects' = [effects EXCEPT ![e] =
                              IF s = "processed" THEN @ + 1 ELSE @]
        PROVE  Promise!Next
    <2>1. job[w] \in published
      BY <1>2, JobInStream DEF IInv, Claiming, Holds
    <2>2. job[w] \notin Undecodable /\ status[e] = "processing"
      BY <1>2 DEF IInv, Holds, ClaimIsFresh
    <2>3. Outcome(e) = "open"
      BY <1>2, <2>1, <2>2 DEF Outcome, Holds
    <2>4. \A x \in Event \ {e} : Outcome(x)' = Outcome(x)
      BY <1>2, <2>1 DEF Outcome, IInv, TypeOK
    <2>5. Outcome(e)' = IF s = "processed" THEN "done" ELSE "dead"
      BY <1>2, <2>1 DEF Outcome, IInv, TypeOK, Terminal
    <2>6. CASE s = "processed"
      BY <1>2, <2>1, <2>3, <2>4, <2>5, <2>6 DEF Promise!Next, Promise!Perform
    <2>7. CASE s = "dead_lettered"
      <3>1. effects' = effects
        BY <1>2, <2>1, <2>7 DEF IInv, TypeOK
      <3> QED
        BY <2>1, <2>3, <2>4, <2>5, <2>7, <3>1 DEF Promise!Next, Promise!GiveUp
    <2> QED
      BY <2>6, <2>7 DEF Terminal
  <1>3. ASSUME NEW w \in Worker, Commit(w) PROVE Promise!Next
    <2>1. job[w].event \in Event /\ pc[w] \in Claiming
      BY <1>3, JobInStream DEF Commit, HandlerCommits, Claiming, IInv
    <2>2. effects[job[w].event] = 0
      BY <1>3, <2>1 DEF Commit, HandlerCommits, IInv, ClaimIsFresh, LedgerMatchesEffects
    <2>3. effects' = [effects EXCEPT ![job[w].event] = @ + 1]
      BY <1>3, <2>2 DEF Commit, HandlerCommits, Saturate
    <2> QED
      BY <1>2, <1>3, <2>1, <2>3 DEF Commit, HandlerCommits, SetRow, Terminal, Holds
  <1>4. ASSUME NEW w \in Worker, CloseDeadLetter(w) PROVE Promise!Next
    <2>1. job[w].event \in Event /\ pc[w] \in Claiming
      BY <1>4, JobInStream DEF CloseDeadLetter, Claiming, IInv
    <2>2. effects' = [effects EXCEPT ![job[w].event] = @]
      BY <1>4, <2>1 DEF CloseDeadLetter, IInv, TypeOK
    <2> QED
      BY <1>2, <1>4, <2>1, <2>2 DEF CloseDeadLetter, SetRow, Terminal, Holds
  <1>5. ASSUME UNCHANGED <<published, effects>>,
               \A x \in Event : \/ status'[x] = status[x]
                                \/ status[x] \notin Terminal /\ status'[x] \notin Terminal
        PROVE  UNCHANGED Promise!vars
    <2>1. \A x \in Event : Outcome(x)' = Outcome(x)
      BY <1>5 DEF Outcome, Terminal
    <2> QED
      BY <1>5, <2>1 DEF Promise!vars
  <1>6. ASSUME NEW w \in Worker, Claim(w) \/ Retry(w) PROVE UNCHANGED Promise!vars
    <2>1. job[w].event \in Event
      BY <1>6, JobInStream DEF Claim, Decoded, Retry, IInv
    <2>2. status[job[w].event] \notin Terminal
      BY <1>6, <2>1 DEF Claim, Claimable, Retry, IInv, ClaimIsFresh, Claiming, Terminal
    <2>3. /\ UNCHANGED <<published, effects>>
          /\ \E s \in {"processing", "retrying"} :
                 status' = [status EXCEPT ![job[w].event] = s]
      BY <1>6 DEF Claim, Retry, SetRow
    <2> QED
      BY <1>5, <2>1, <2>2, <2>3 DEF IInv, TypeOK, Terminal
  <1>7. CASE UNCHANGED <<published, status, effects>>
    BY <1>5, <1>7
  <1>8. ASSUME NEW w \in Worker, NEW m \in Message, Fetch(w, m)
        PROVE UNCHANGED <<published, status, effects>>
    BY <1>8 DEF Fetch
  <1>9. ASSUME NEW w \in Worker,
               \/ CaptureRaw(w) \/ SkipTerminal(w) \/ Blocked(w)
               \/ HandlerFails(w) \/ RecordDeadLetter(w) \/ EmitDeadLetter(w)
               \/ CaptureFails(w) \/ LedgerError(w) \/ Ack(w) \/ AckFails(w)
               \/ Nak(w) \/ Crash(w)
        PROVE  UNCHANGED <<published, status, effects>>
    BY <1>9 DEF CaptureRaw, SkipTerminal, Blocked, HandlerFails,
                RecordDeadLetter, EmitDeadLetter, CaptureFails, LedgerError,
                Ack, AckFails, Nak, Crash
  <1>10. CASE Tick \/ UNCHANGED vars
    BY <1>7, <1>10 DEF Tick, vars
  <1>11. ASSUME NEW w \in Worker, Work(w) \/ Crash(w)
         PROVE  [Promise!Next]_(Promise!vars)
    <2>1. ~ CommitUnknown(w)
      BY DEF CommitUnknown
    <2> QED
      BY <1>3, <1>4, <1>6, <1>7, <1>9, <1>11, <2>1 DEF Work
  <1> QED
    BY <1>1, <1>7, <1>8, <1>10, <1>11 DEF Next

\* The worker runtime implements ExactlyOnce: an event is closed at most once,
\* performed or given up, and never reopened.
THEOREM Refinement ==
    ASSUME SafeTiming, ~ AmbiguousCommit
    PROVE  Spec => ImplementsExactlyOnce
  <1>1. IInv /\ [Next]_vars => [Promise!Next]_(Promise!vars)
    BY PromiseStep
  <1> QED
    BY <1>1, PromiseInit, Invariance, PTL
       DEF Spec, ImplementsExactlyOnce, Promise!Spec
===============================================================================
