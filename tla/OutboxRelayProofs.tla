-------------------------- MODULE OutboxRelayProofs --------------------------
(***************************************************************************)
(* Proofs about OutboxRelay for every set of rows and relays: nothing is    *)
(* lost whatever the timers are, and the lease is a lock under SafeLease.   *)
(***************************************************************************)
EXTENDS OutboxRelay, FiniteSetTheorems, TLAPS

\* Initially the outbox is empty and every relay idle.
LEMMA InitType == Init => TypeOK /\ SentIsDelivered
  BY RelayAssumption DEF Init, TypeOK, SentIsDelivered

\* TypeOK is preserved by every step.
LEMMA TypeStep == TypeOK /\ [Next]_vars => TypeOK'
  <1> SUFFICES ASSUME TypeOK, [Next]_vars PROVE TypeOK' OBVIOUS
  <1> USE RelayAssumption DEF TypeOK, tableVars, brokerVars, relayVars, Continue, Saturate
  <1>1. ASSUME NEW e \in Row, Stage(e) PROVE TypeOK'
    BY <1>1 DEF Stage
  <1>2. ASSUME NEW r \in Relay, UnsentEvents(r) PROVE TypeOK'
    BY <1>2 DEF UnsentEvents, Available
  <1>3. ASSUME NEW r \in Relay, NEW e \in Row, Publish(r, e) PROVE TypeOK'
    BY <1>3 DEF Publish, Deliver
  <1>4. ASSUME NEW r \in Relay, NEW e \in Row, PublishFails(r, e) PROVE TypeOK'
    BY <1>4 DEF PublishFails, Deliver
  <1>5. ASSUME NEW r \in Relay, NEW e \in Row, MarkDeadLettered(r, e) PROVE TypeOK'
    BY <1>5 DEF MarkDeadLettered
  <1>6. ASSUME NEW r \in Relay, MarkSent(r) \/ Crash(r) PROVE TypeOK'
    <2>1. CASE MarkSent(r)
      BY <2>1 DEF MarkSent
    <2>2. CASE Crash(r)
      BY <2>2 DEF Crash
    <2> QED
      BY <1>6, <2>1, <2>2
  <1>7. CASE Tick
    BY <1>7 DEF Tick, Elapse
  <1>8. CASE UNCHANGED vars
    BY <1>8 DEF vars
  <1> QED
    BY <1>1, <1>2, <1>3, <1>4, <1>5, <1>6, <1>7, <1>8 DEF Next, RunOnce

\* Messages and dead letters are never taken back, and rows are marked only
\* after they were published or dead-lettered.
LEMMA DeliveredStep ==
    TypeOK /\ SentIsDelivered /\ [Next]_vars => SentIsDelivered'
  <1> SUFFICES ASSUME TypeOK, SentIsDelivered, [Next]_vars
               PROVE  SentIsDelivered'
    OBVIOUS
  <1> USE RelayAssumption
          DEF TypeOK, SentIsDelivered, tableVars, brokerVars, relayVars,
              Continue, Saturate
  <1>1. ASSUME NEW e \in Row, Stage(e) PROVE SentIsDelivered'
    BY <1>1 DEF Stage
  <1>2. ASSUME NEW r \in Relay, UnsentEvents(r) PROVE SentIsDelivered'
    BY <1>2 DEF UnsentEvents
  <1>3. ASSUME NEW r \in Relay, NEW e \in Row, Publish(r, e)
        PROVE  SentIsDelivered'
    BY <1>3 DEF Publish, Deliver
  <1>4. ASSUME NEW r \in Relay, NEW e \in Row, PublishFails(r, e)
        PROVE  SentIsDelivered'
    BY <1>4 DEF PublishFails, Deliver
  <1>5. ASSUME NEW r \in Relay, NEW e \in Row, MarkDeadLettered(r, e)
        PROVE  SentIsDelivered'
    BY <1>5 DEF MarkDeadLettered
  <1>6. ASSUME NEW r \in Relay, MarkSent(r) \/ Crash(r) PROVE SentIsDelivered'
    BY <1>6 DEF MarkSent, Crash
  <1>7. CASE Tick \/ UNCHANGED vars
    BY <1>7 DEF Tick, vars, Elapse
  <1> QED
    BY <1>1, <1>2, <1>3, <1>4, <1>5, <1>6, <1>7 DEF Next, RunOnce

\* Every variable keeps its type.
THEOREM TypeCorrect == Spec => []TypeOK
  BY InitType, TypeStep, PTL DEF Spec

\* A row marked sent has been published or dead-lettered, whatever the timers
\* are, whichever relays compete and wherever they crash.
THEOREM NothingLost == Spec => []SentIsDelivered
  BY InitType, TypeStep, DeliveredStep, PTL DEF Spec

-----------------------------------------------------------------------------

\* The inductive invariant behind the lease: the rows in hand are disjoint
\* because a row in hand keeps a lease, and it keeps one because every step of
\* the batch takes a bounded time.
LeaseInv ==
    /\ TypeOK
    /\ SentIsDelivered
    /\ LeaseIsExclusive
    /\ LeaseCoversWork
    /\ OneDeadLetter

\* Sets of rows are finite.
LEMMA RowsFinite ==
    ASSUME NEW S \in SUBSET Row
    PROVE  IsFiniteSet(S) /\ Cardinality(S) \in Nat
  BY RelayAssumption, FS_Subset, FS_CardinalityType

\* Finishing one row moves the budget on by one step.
LEMMA SpentStep ==
    ASSUME NEW S \in SUBSET Row, NEW e \in S
    PROVE  /\ Spent(Cardinality(S \ {e})) = Spent(Cardinality(S)) + Step
           /\ Spent(Cardinality(S)) \in Int
           /\ Cardinality(S \ {e}) = Cardinality(S) - 1
           /\ Step \in Nat
  <1>1. Cardinality(S) \in Nat /\ Cardinality(S \ {e}) = Cardinality(S) - 1
    BY RowsFinite, FS_RemoveElement
  <1>2. Step \in Nat /\ Batch \in Nat
    BY RelayAssumption DEF Step
  <1>3. \A n \in Nat, k \in Nat : (Batch - (n - 1)) * k = (Batch - n) * k + k
    BY <1>2
  <1>4. \A n \in Nat, k \in Nat : (Batch - n) * k \in Int
    BY <1>2
  <1> QED
    BY <1>1, <1>2, <1>3, <1>4 DEF Spent

\* A budget never exceeds the whole batch's.
LEMMA SpentBound ==
    ASSUME NEW n \in Nat, n <= Batch
    PROVE  Spent(n) \in Nat /\ Spent(n) <= Spent(0)
  <1>1. Step \in Nat /\ Batch \in Nat
    BY RelayAssumption DEF Step
  <1>2. \A k \in Nat : (Batch - n) * k \in Nat /\ (Batch - n) * k <= (Batch - 0) * k
    BY <1>1
  <1> QED
    BY <1>1, <1>2 DEF Spent

\* A row in hand is leased.
Leased == \A r \in Relay : \A e \in Held(r) : lease[e] > 0

\* The budget leaves a positive rest of the lease.
LEMMA HeldIsLeased ==
    ASSUME SafeLease PROVE TypeOK /\ LeaseCoversWork => Leased
  <1> SUFFICES ASSUME TypeOK, LeaseCoversWork, NEW r \in Relay, NEW e \in Held(r)
               PROVE  lease[e] > 0
    BY DEF Leased
  <1> DEFINE n == Cardinality(rows[r])
  <1>1. pc[r] # "idle" /\ e \in Row /\ rows[r] \in SUBSET Row
    BY DEF TypeOK, Held
  <1>2. n \in Nat /\ n <= Batch /\ run[r] \in Nat /\ run[r] <= Limit(r)
        /\ lease[e] \in Nat
        /\ Lease <= lease[e] + DbDelay + Spent(n) + run[r]
    BY <1>1, RowsFinite, RelayAssumption DEF TypeOK, LeaseCoversWork, Covered
  <1>3. Spent(0) \in Nat /\ Spent(n) \in Nat /\ DbDelay \in Nat /\ Lease \in Nat
    BY <1>2, SpentBound, RelayAssumption
  <1>4. DbDelay + Spent(0) + DbDelay < Lease
    BY DEF SafeLease
  <1>5. CASE pc[r] = "marking"
    <2>1. rows[r] = {}
      BY <1>1, <1>5 DEF TypeOK
    <2>2. n = 0
      BY <2>1, FS_EmptySet
    <2>3. run[r] <= DbDelay
      BY <1>2, <1>5 DEF Limit
    <2> QED
      BY <1>2, <1>3, <1>4, <2>2, <2>3
  <1>6. CASE pc[r] = "publishing" /\ rows[r] # {}
    <2>1. PICK f \in rows[r] : TRUE
      BY <1>6
    <2>2. Spent(Cardinality(rows[r] \ {f})) = Spent(n) + Step
          /\ Cardinality(rows[r] \ {f}) = n - 1 /\ Step \in Nat
      BY <1>1, SpentStep
    <2>3. n - 1 \in Nat
      BY <1>1, <2>2, RowsFinite
    <2>4. Spent(n) + Step <= Spent(0)
      BY <1>2, <2>2, <2>3, SpentBound, RelayAssumption
    <2>5. run[r] <= Step
      BY <1>2, <1>6 DEF Limit, Step
    <2> QED
      BY <1>2, <1>3, <1>4, <2>2, <2>4, <2>5
  <1> QED
    BY <1>1, <1>5, <1>6 DEF TypeOK, Held

\* Initially no row is in hand.
LEMMA LeaseInit == Init => LeaseInv
  BY InitType
     DEF Init, LeaseInv, LeaseIsExclusive, LeaseCoversWork, Covered,
         OneDeadLetter, Held

\* A relay that does not move stays covered while its rows keep their lease.
LEMMA StaysCovered ==
    ASSUME NEW s \in Relay, Covered(s),
           UNCHANGED <<pc[s], rows[s], done[s], run[s]>>,
           \A e \in Held(s) : lease'[e] = lease[e]
    PROVE  Covered(s)' /\ Held(s)' = Held(s)
  BY DEF Covered, Held, Limit

\* The step of one relay r keeps the leases exclusive if r stays covered, no
\* row comes into its hands that another relay holds, and nobody else moves.
LEMMA OneRelayStep ==
    ASSUME SafeLease, LeaseInv, TypeOK', SentIsDelivered', NEW r \in Relay,
           \A s \in Relay \ {r} : UNCHANGED <<pc[s], rows[s], done[s], run[s]>>,
           \A s \in Relay \ {r} : \A e \in Held(s) :
               e \notin Held(r)' /\ lease'[e] = lease[e] /\ outbox'[e] = outbox[e],
           \A e \in Held(r)' : outbox'[e] = "unsent",
           Covered(r)', OneDeadLetter'
    PROVE  LeaseInv'
  <1>2. \A s \in Relay \ {r} : Covered(s)' /\ Held(s)' = Held(s)
    BY StaysCovered DEF LeaseInv, LeaseCoversWork
  <1>3. LeaseCoversWork'
    BY <1>2 DEF LeaseCoversWork
  <1>4. Leased'
    BY <1>3, HeldIsLeased, PTL
  <1>6. \A s \in Relay \ {r} : \A e \in Held(s) : outbox'[e] = "unsent"
    BY DEF LeaseInv, LeaseIsExclusive
  <1>7. \A s \in Relay : \A e \in Held(s)' : outbox'[e] = "unsent" /\ lease'[e] > 0
    BY <1>2, <1>4, <1>6 DEF Leased
  <1>8. \A s, t \in Relay : s # t => Held(s)' \cap Held(t)' = {}
    BY <1>2 DEF LeaseInv, LeaseIsExclusive
  <1> QED
    BY <1>3, <1>7, <1>8 DEF LeaseInv, LeaseIsExclusive

\* Continue moves relay r only.
LEMMA ContinueMoves ==
    ASSUME TypeOK, NEW r \in Relay, NEW left, NEW P, Continue(r, left, P)
    PROVE  /\ Held(r)' = left \cup P
           /\ rows'[r] = left /\ done'[r] = P /\ run'[r] = 0
           /\ pc'[r] = IF left # {} THEN "publishing"
                       ELSE IF P # {} THEN "marking" ELSE "idle"
           /\ \A s \in Relay \ {r} : UNCHANGED <<pc[s], rows[s], done[s], run[s]>>
  BY DEF Continue, Held, TypeOK

\* Every step keeps the leases exclusive.
LEMMA LeaseStep ==
    ASSUME SafeLease, LeaseInv, [Next]_vars
    PROVE  LeaseInv'
  <1>1. TypeOK /\ TypeOK' /\ SentIsDelivered /\ SentIsDelivered'
    BY TypeStep, DeliveredStep DEF LeaseInv
  <1>2. DbDelay \in Nat /\ PublishTimeout \in Nat /\ Lease \in Nat
        /\ Batch \in Nat /\ Step \in Nat /\ Spent(0) \in Nat
        /\ DbDelay <= Lease /\ Oversize \subseteq Row
    BY RelayAssumption, SpentBound DEF Step
  <1> USE <1>1, <1>2 DEF tableVars, brokerVars, relayVars
  <1>3. ASSUME NEW e \in Row, Stage(e) PROVE LeaseInv'
    <2>1. \A s \in Relay : e \notin Held(s)
      BY <1>3 DEF Stage, LeaseInv, LeaseIsExclusive
    <2>2. \A s \in Relay : Covered(s)' /\ Held(s)' = Held(s)
      BY <1>3, StaysCovered DEF Stage, LeaseInv, LeaseCoversWork
    <2>3. OneDeadLetter'
      BY <1>3 DEF Stage, LeaseInv, OneDeadLetter, TypeOK
    <2>4. LeaseIsExclusive'
      BY <1>3, <2>1, <2>2 DEF Stage, LeaseInv, LeaseIsExclusive, TypeOK
    <2> QED
      BY <2>2, <2>3, <2>4 DEF LeaseInv, LeaseCoversWork
  <1>4. ASSUME NEW r \in Relay, UnsentEvents(r) PROVE LeaseInv'
    <2>1. PICK S \in SUBSET Available(r), d \in 0..DbDelay :
             /\ pc[r] = "idle" /\ S # {} /\ Cardinality(S) <= Batch
             /\ lease' = [e \in Row |-> IF e \in S THEN Lease - d ELSE lease[e]]
             /\ pc' = [pc EXCEPT ![r] = "publishing"]
             /\ rows' = [rows EXCEPT ![r] = S]
             /\ run' = [run EXCEPT ![r] = 0]
             /\ UNCHANGED <<outbox, brokerVars, dead, done>>
      BY <1>4 DEF UnsentEvents, IsFirstBatch
    <2>2. S \in SUBSET Row /\ \A e \in S : outbox[e] = "unsent" /\ lease[e] = 0
      BY RelayAssumption DEF Available
    <2>3. done[r] = {} /\ done' = [done EXCEPT ![r] = {}]
      BY <2>1 DEF TypeOK
    <2>4. \A s \in Relay : \A e \in Held(s) : e \notin S /\ e \in Row
      BY <2>2 DEF LeaseInv, LeaseIsExclusive, Held, TypeOK
    <2>5. Cardinality(S) \in Nat /\ Spent(Cardinality(S)) \in Nat
      BY <2>1, <2>2, RowsFinite, SpentBound
    <2>6. \A e \in S : Lease <= lease'[e] + DbDelay + Spent(Cardinality(S)) + 0
      BY <2>1, <2>2, <2>5
    <2>7. rows'[r] = S /\ done'[r] = {} /\ run'[r] = 0 /\ pc'[r] = "publishing"
      BY <2>1, <2>3 DEF TypeOK
    <2>8. Covered(r)'
      BY <2>1, <2>6, <2>7 DEF Covered, Held, Limit
    <2>9. OneDeadLetter'
      BY <2>1 DEF LeaseInv, OneDeadLetter
    <2>10. \A s \in Relay \ {r} : UNCHANGED <<pc[s], rows[s], done[s], run[s]>>
      BY <2>1 DEF TypeOK
    <2>11. Held(r)' = S
      BY <2>7 DEF Held
    <2>12. \A s \in Relay : \A e \in Held(s) :
               e \notin Held(r)' /\ lease'[e] = lease[e] /\ outbox'[e] = outbox[e]
      BY <2>1, <2>4, <2>11
    <2> QED
      BY <2>1, <2>2, <2>8, <2>9, <2>10, <2>11, <2>12, OneRelayStep
  <1>5. ASSUME NEW r \in Relay, NEW e \in rows[r], NEW left \in SUBSET rows[r],
               NEW P \in SUBSET Held(r),
               pc[r] = "publishing", e \notin left,
               left = rows[r] \ {e} \/ left = {},
               Continue(r, left, P),
               \A f \in left \cup P : lease'[f] = lease[f]
        PROVE  Covered(r)'
    <2> DEFINE n == Cardinality(rows[r])
               k == Cardinality(left)
    <2>1. rows[r] \in SUBSET Row /\ rows'[r] = left /\ done'[r] = P /\ run'[r] = 0
      BY <1>5 DEF Continue, TypeOK
    <2>2. n \in Nat /\ n <= Batch /\ run[r] \in Nat /\ run[r] <= Step
      BY <1>5, <2>1, RowsFinite DEF LeaseInv, LeaseCoversWork, Covered, Limit, Step, TypeOK
    <2>3. /\ Spent(Cardinality(rows[r] \ {e})) = Spent(n) + Step
          /\ Cardinality(rows[r] \ {e}) = n - 1 /\ n - 1 \in Nat
      BY <2>1, SpentStep, RowsFinite
    <2>4. k \in Nat /\ k <= Batch /\ Spent(n) + Step <= Spent(k) /\ Spent(k) \in Nat /\ Spent(n) \in Nat
      <3>1. CASE left = rows[r] \ {e}
        BY <2>2, <2>3, <3>1, SpentBound
      <3>2. CASE left = {}
        <4>1. k = 0
          BY <3>2, FS_EmptySet
        <4> QED
          BY <2>2, <2>3, <4>1, SpentBound
      <3> QED
        BY <1>5, <3>1, <3>2
    <2>5. \A f \in Held(r) : lease[f] \in Nat /\ Lease <= lease[f] + DbDelay + Spent(n) + run[r]
      BY <1>5, <2>1 DEF LeaseInv, LeaseCoversWork, Covered, TypeOK, Held
    <2>6. \A f \in left \cup P : Lease <= lease'[f] + DbDelay + Spent(k) + 0
      BY <1>5, <2>2, <2>4, <2>5 DEF Held
    <2>7. Limit(r)' \in Nat
      BY DEF Limit
    <2> QED
      BY <2>1, <2>4, <2>6, <2>7 DEF Covered, Held
  <1>6. ASSUME NEW r \in Relay
        PROVE  \A s \in Relay \ {r} : \A f \in Held(s) :
                   f \in Row /\ f \notin Held(r)
    BY DEF LeaseInv, LeaseIsExclusive, TypeOK, Held
  <1>7. ASSUME NEW r \in Relay, NEW e \in Row, Publish(r, e) PROVE LeaseInv'
    <2> DEFINE left == rows[r] \ {e}
               P == done[r] \cup {e}
    <2>1. /\ e \in rows[r] /\ pc[r] = "publishing" /\ Continue(r, left, P)
          /\ UNCHANGED <<outbox, lease, dead>>
      BY <1>7 DEF Publish
    <2>2. left \cup P = Held(r)
      BY <2>1 DEF Held
    <2>3. Covered(r)'
      BY <1>5, <2>1, <2>2
    <2>4. OneDeadLetter'
      BY <2>1 DEF LeaseInv, OneDeadLetter
    <2>5. /\ Held(r)' \subseteq Held(r)
          /\ \A s \in Relay \ {r} : UNCHANGED <<pc[s], rows[s], done[s], run[s]>>
      BY <2>1, <2>2, ContinueMoves
    <2>6. \A f \in Held(r)' : outbox'[f] = "unsent"
      BY <2>1, <2>5 DEF LeaseInv, LeaseIsExclusive
    <2> QED
      BY <1>6, <2>1, <2>3, <2>4, <2>5, <2>6, OneRelayStep
  <1>8. ASSUME NEW r \in Relay, NEW e \in Row, PublishFails(r, e) PROVE LeaseInv'
    <2>1. /\ e \in rows[r] /\ pc[r] = "publishing" /\ Continue(r, {}, done[r])
          /\ UNCHANGED <<outbox, lease, dead>>
      BY <1>8 DEF PublishFails
    <2>2. done[r] \in SUBSET Held(r) /\ {} \cup done[r] \subseteq Held(r)
      BY DEF Held
    <2>3. Covered(r)'
      BY <1>5, <2>1, <2>2
    <2>4. OneDeadLetter'
      BY <2>1 DEF LeaseInv, OneDeadLetter
    <2>5. /\ Held(r)' \subseteq Held(r)
          /\ \A s \in Relay \ {r} : UNCHANGED <<pc[s], rows[s], done[s], run[s]>>
      BY <2>1, <2>2, ContinueMoves
    <2>6. \A f \in Held(r)' : outbox'[f] = "unsent"
      BY <2>1, <2>5 DEF LeaseInv, LeaseIsExclusive
    <2> QED
      BY <1>6, <2>1, <2>3, <2>4, <2>5, <2>6, OneRelayStep
  <1>9. ASSUME NEW r \in Relay, NEW e \in Row, MarkDeadLettered(r, e)
        PROVE  LeaseInv'
    <2> DEFINE left == rows[r] \ {e}
    <2>1. /\ e \in rows[r] /\ e \in Oversize /\ pc[r] = "publishing"
          /\ Continue(r, left, done[r])
          /\ dead' = [dead EXCEPT ![e] = Saturate(@, 2)]
          /\ outbox' = [outbox EXCEPT ![e] = "sent"]
          /\ lease' = [lease EXCEPT ![e] = 0]
      BY <1>9 DEF MarkDeadLettered
    <2>2. e \notin done[r] /\ done[r] \in SUBSET Held(r) /\ left \in SUBSET rows[r]
          /\ e \in Held(r) /\ left \cup done[r] \subseteq Held(r) \ {e}
      BY <2>1 DEF SentIsDelivered, Held
    <2>3. \A f \in Row \ {e} : lease'[f] = lease[f] /\ outbox'[f] = outbox[f]
      BY <2>1 DEF TypeOK
    <2>4. Held(r) \subseteq Row
      BY DEF Held, TypeOK
    <2>5. Covered(r)'
      BY <1>5, <2>1, <2>2, <2>3, <2>4
    <2>6. outbox[e] = "unsent" /\ dead[e] = 0
      BY <2>2 DEF LeaseInv, LeaseIsExclusive, OneDeadLetter, TypeOK
    <2>7. OneDeadLetter'
      BY <2>1, <2>6 DEF LeaseInv, OneDeadLetter, Saturate, TypeOK
    <2>8. \A s \in Relay \ {r} : \A f \in Held(s) :
              /\ f \notin left \cup done[r]
              /\ lease'[f] = lease[f] /\ outbox'[f] = outbox[f]
      BY <1>6, <2>2, <2>3
    <2>9. \A f \in left \cup done[r] : outbox'[f] = "unsent"
      BY <2>2, <2>3, <2>4 DEF LeaseInv, LeaseIsExclusive
    <2>10. /\ Held(r)' = left \cup done[r]
           /\ \A s \in Relay \ {r} : UNCHANGED <<pc[s], rows[s], done[s], run[s]>>
      BY <2>1, ContinueMoves
    <2> QED
      BY <2>5, <2>7, <2>8, <2>9, <2>10, OneRelayStep
  <1>10. ASSUME NEW r \in Relay, MarkSent(r) \/ Crash(r) PROVE LeaseInv'
    <2>1. /\ Continue(r, {}, {})
          /\ dead' = dead
          /\ \A f \in Row \ done[r] : lease'[f] = lease[f] /\ outbox'[f] = outbox[f]
          /\ \A f \in Row : outbox[f] = "sent" => outbox'[f] = "sent"
      BY <1>10 DEF MarkSent, Crash
    <2>2. pc'[r] = "idle"
      BY <2>1 DEF Continue, TypeOK
    <2>3. Covered(r)'
      BY <2>2 DEF Covered
    <2>4. OneDeadLetter'
      BY <2>1 DEF LeaseInv, OneDeadLetter
    <2>5. \A s \in Relay \ {r} : \A f \in Held(s) : f \in Row \ done[r]
      BY <1>6 DEF Held
    <2>6. /\ Held(r)' = {}
          /\ \A s \in Relay \ {r} : UNCHANGED <<pc[s], rows[s], done[s], run[s]>>
      BY <2>1, ContinueMoves
    <2> QED
      BY <2>1, <2>3, <2>4, <2>5, <2>6, OneRelayStep
  <1>11. CASE Tick
    <2>1. /\ UNCHANGED <<outbox, dead, pc, rows, done>>
          /\ \A r \in Relay : Held(r)' = Held(r) /\ Limit(r)' = Limit(r)
      BY <1>11 DEF Tick, Held, Limit
    <2>2. ASSUME NEW r \in Relay, pc[r] # "idle"
          PROVE  Covered(r)'
      <3>1. run'[r] = run[r] + 1 /\ run[r] < Limit(r)
        BY <1>11, <2>2 DEF Tick
      <3>2. \A e \in Held(r) : e \in Row
        BY DEF Held, TypeOK
      <3>3. \A e \in Held(r) : lease[e] \in Nat /\ lease'[e] \in Nat
                               /\ lease[e] <= lease'[e] + 1
        BY <1>11, <3>2 DEF Tick, Elapse, TypeOK
      <3>4. /\ Cardinality(rows[r]) \in Nat /\ Cardinality(rows[r]) <= Batch
            /\ run[r] \in Nat /\ Limit(r) \in Nat
        BY <2>2, RowsFinite DEF LeaseInv, LeaseCoversWork, Covered, TypeOK, Limit
      <3>5. Spent(Cardinality(rows[r])) \in Nat
        BY <3>4, SpentBound
      <3>6. \A e \in Held(r) : Lease <= lease[e] + DbDelay
                                        + Spent(Cardinality(rows[r])) + run[r]
        BY <2>2 DEF LeaseInv, LeaseCoversWork, Covered
      <3>7. \A e \in Held(r) : Lease <= lease'[e] + DbDelay
                                        + Spent(Cardinality(rows[r])) + (run[r] + 1)
        BY <3>3, <3>4, <3>5, <3>6
      <3>8. run[r] + 1 <= Limit(r)
        BY <3>1, <3>4
      <3> QED
        BY <2>1, <3>1, <3>4, <3>7, <3>8 DEF Covered
    <2>3. LeaseCoversWork'
      BY <2>1, <2>2 DEF LeaseCoversWork, Covered
    <2>4. Leased'
      BY <2>3, HeldIsLeased, PTL
    <2>5. LeaseIsExclusive' /\ OneDeadLetter'
      BY <2>1, <2>4 DEF LeaseIsExclusive, OneDeadLetter, LeaseInv, Leased
    <2> QED
      BY <2>3, <2>5 DEF LeaseInv
  <1>12. CASE UNCHANGED vars
    <2>1. \A r \in Relay : Covered(r)' /\ Held(r)' = Held(r)
      BY <1>12, StaysCovered DEF vars, LeaseInv, LeaseCoversWork
    <2> QED
      BY <1>12, <2>1 DEF vars, LeaseInv, LeaseCoversWork, LeaseIsExclusive, OneDeadLetter
  <1> QED
    BY <1>3, <1>4, <1>7, <1>8, <1>9, <1>10, <1>11, <1>12 DEF Next, RunOnce

\* Under SafeLease the lease is a lock: no row is in the hands of two relays,
\* with any number of relays and any pattern of crashes.
THEOREM LeaseIsALock ==
    ASSUME SafeLease
    PROVE  Spec => []LeaseIsExclusive
  <1>1. LeaseInv /\ [Next]_vars => LeaseInv'
    BY LeaseStep
  <1>2. LeaseInv => LeaseIsExclusive
    BY DEF LeaseInv
  <1> QED
    BY <1>1, <1>2, LeaseInit, PTL DEF Spec

\* Under SafeLease a row the broker refuses leaves one dead letter, whichever
\* relays meet it and crash over it.
THEOREM DeadLetterOnce ==
    ASSUME SafeLease
    PROVE  Spec => []OneDeadLetter
  <1>1. LeaseInv /\ [Next]_vars => LeaseInv'
    BY LeaseStep
  <1>2. LeaseInv => OneDeadLetter
    BY DEF LeaseInv
  <1> QED
    BY <1>1, <1>2, LeaseInit, PTL DEF Spec

\* Under SafeLease what is left of a row's lease always covers what its relay
\* still has to do, for any batch size and any time a row takes.
THEOREM LeaseOutlivesWork ==
    ASSUME SafeLease
    PROVE  Spec => []LeaseCoversWork
  <1>1. LeaseInv /\ [Next]_vars => LeaseInv'
    BY LeaseStep
  <1>2. LeaseInv => LeaseCoversWork
    BY DEF LeaseInv
  <1> QED
    BY <1>1, <1>2, LeaseInit, PTL DEF Spec
===============================================================================
