-------------------------- MODULE AlertIntakeProofs --------------------------
(***************************************************************************)
(* Proof that nothing is lost or doubled between an Alertmanager           *)
(* notification and its incident, for any alerts, events and concurrent    *)
(* webhook requests.                                                       *)
(***************************************************************************)
EXTENDS AlertIntake, FiniteSetTheorems, TLAPS

Phase == {"record", "classify", "rotate", "persist"}
Pending == [at : Phase, alert : Alert, event : Event \cup {NoEvent}, seen : Event \cup {NoEvent}]

IntakeType ==
    /\ live \in [Alert -> AlertEvent \cup {NoEvent}]
    /\ archive \subseteq Alert \X AlertEvent
    /\ staged \subseteq Event
    /\ consumed \in [Event -> [Consumer -> {"none", "in flight", "final"}]]
    /\ built \in [Event -> Signal \cup {"no", "handled"}]
    /\ claimed \in [Signal -> Event \cup {NoEvent}]
    /\ incident \in [Event -> {"none", "open", "completed"}]
    /\ alertRow \in [Alert -> [status : {"none", "firing", "resolved"}, incident : Event \cup {NoEvent}]]
    /\ req \in [Request -> Pending \cup {Idle}]

\* Where the events of notifications are: staged exactly if some alert has
\* them, and one alert has each.
PlacesInv ==
    /\ \A e \in AlertEvent : e \in staged <=> AlertOf(e) # {}
    /\ \A e \in AlertEvent : \A a, b \in AlertOf(e) : a = b
    /\ \A a \in Alert : <<a, live[a]>> \notin archive

\* What a request remembers of the window was true once, and what was true
\* once stays in the window or in the history.
RequestInv ==
    \A r \in Request :
        /\ req[r].at \in {"classify", "rotate"} => req[r].seen \in AlertEvent /\ req[r].alert \in AlertOf(req[r].seen)
        /\ req[r].at = "persist" /\ req[r].event # NoEvent => req[r].alert \in AlertOf(req[r].event)

\* No worker has touched an event that is not staged; the signal an event
\* will claim is the alert that has it, if that alert names its target; and
\* an event with an incident has claimed that signal.
ClaimInv ==
    /\ \A e \in Event \ staged : /\ built[e] = "no" /\ incident[e] = "none"
                                 /\ \A c \in Consumer : consumed[e][c] = "none"
    /\ \A e \in AlertEvent, a \in Labelled : a \in AlertOf(e) =>
          /\ built[e] \in Signal => built[e] = a
          /\ incident[e] # "none" => claimed[a] = e

IntakeInv == IntakeType /\ PlacesInv /\ RequestInv /\ ClaimInv /\ AlertRowHasLineage

LEMMA IntakeStarts == IntakeInit => IntakeInv
  <1> SUFFICES ASSUME IntakeInit PROVE IntakeInv
    OBVIOUS
  <1>1. IntakeType
    BY DEF IntakeInit, IntakeType, Signal
  <1>2. \A e \in Event : AlertOf(e) = {}
    BY IntakeAssumption DEF IntakeInit, AlertOf, Event
  <1>3. \A r \in Request : req[r].at = "idle"
    BY DEF IntakeInit, Idle
  <1>4. PlacesInv /\ RequestInv /\ ClaimInv
    BY <1>2, <1>3 DEF IntakeInit, PlacesInv, RequestInv, ClaimInv, Event
  <1>5. AlertRowHasLineage
    BY DEF IntakeInit, AlertRowHasLineage
  <1> QED
    BY <1>1, <1>4, <1>5 DEF IntakeInv

\* The invariant says all of AlertLineage.
LEMMA InvariantMeans == IntakeInv => AlertLineage
  <1> SUFFICES ASSUME IntakeInv PROVE AlertLineage
    OBVIOUS
  <1>1. ASSUME NEW S, NEW x, S \subseteq {x} PROVE Cardinality(S) <= 1
    <2>1. IsFiniteSet({x}) /\ Cardinality({x}) = 1
      BY FS_Singleton
    <2>2. Cardinality(S) <= Cardinality({x})
      BY <1>1, <2>1, FS_Subset
    <2> QED
      BY <2>1, <2>2
  <1>2. ASSUME NEW e \in AlertEvent PROVE Cardinality(AlertOf(e)) <= 1
    <2>1. CASE AlertOf(e) = {}
      BY <1>1, <2>1
    <2>2. ASSUME NEW a \in AlertOf(e) PROVE Cardinality(AlertOf(e)) <= 1
      <3>1. AlertOf(e) \subseteq {a}
        BY <2>2 DEF IntakeInv, PlacesInv
      <3> QED
        BY <1>1, <3>1
    <2> QED
      BY <2>1, <2>2
  <1>3. EvidenceKept
    BY <1>2 DEF IntakeInv, PlacesInv, EvidenceKept
  <1>4. OneIncidentPerOccurrence
    <2> SUFFICES ASSUME NEW a \in Labelled
                 PROVE  Cardinality({e \in Event : incident[e] # "none"
                                       /\ (a \in AlertOf(e) \/ claimed[a] = e)}) <= 1
      BY DEF OneIncidentPerOccurrence
    <2>1. \A e \in Event : a \in AlertOf(e) => e \in AlertEvent
      BY IntakeAssumption DEF IntakeInv, IntakeType, AlertOf, Event
    <2>2. {e \in Event : incident[e] # "none" /\ (a \in AlertOf(e) \/ claimed[a] = e)} \subseteq {claimed[a]}
      BY <2>1 DEF IntakeInv, ClaimInv
    <2> QED
      BY <1>1, <2>2
  <1> QED
    BY <1>3, <1>4 DEF AlertLineage, IntakeInv

\* A step of a worker moves no event: what the invariant says of windows and
\* requests is kept, and of the rest what its own conjunct says.
LEMMA WindowsKept ==
  ASSUME IntakeInv, UNCHANGED <<live, archive, req, alertRow>>,
         staged' \cap AlertEvent = staged \cap AlertEvent
  PROVE  PlacesInv' /\ RequestInv' /\ AlertRowHasLineage' /\ \A e : AlertOf(e)' = AlertOf(e)
  <1>1. \A e : AlertOf(e)' = AlertOf(e)
    BY DEF AlertOf
  <1>2. PlacesInv'
    BY <1>1 DEF IntakeInv, PlacesInv
  <1>3. RequestInv'
    BY <1>1 DEF IntakeInv, RequestInv
  <1>4. AlertRowHasLineage'
    BY <1>1 DEF IntakeInv, AlertRowHasLineage
  <1> QED
    BY <1>1, <1>2, <1>3, <1>4

LEMMA WorkersStep == ASSUME IntakeInv, NEW e \in Event, Workers(e) PROVE IntakeInv'
  <1> USE DEF IntakeInv
  <1>1. CASE agent_evidence(e)
    <2>1. IntakeType'
      BY <1>1 DEF agent_evidence, IntakeType, Event
    <2>2. staged' \cap AlertEvent = staged \cap AlertEvent
      BY <1>1, IntakeAssumption DEF agent_evidence
    <2>3. PlacesInv' /\ RequestInv' /\ AlertRowHasLineage' /\ \A x : AlertOf(x)' = AlertOf(x)
      BY <1>1, <2>2, WindowsKept DEF agent_evidence
    <2>4. ClaimInv'
      BY <1>1, <2>3 DEF agent_evidence, ClaimInv
    <2> QED
      BY <2>1, <2>3, <2>4
  <1>2. ASSUME NEW c \in Consumer, Begin(e, c) \/ Settle(e, c) PROVE IntakeInv'
    <2>1. UNCHANGED <<live, archive, staged, built, claimed, incident, alertRow, req>>
      BY <1>2 DEF Begin, Settle
    <2>2. IntakeType'
      <3>1. PICK v \in {"in flight", "final"} :
                consumed' = [consumed EXCEPT ![e] = [consumed[e] EXCEPT ![c] = v]]
        BY <1>2 DEF Begin, Settle
      <3>2. /\ consumed[e] \in [Consumer -> {"none", "in flight", "final"}]
            /\ [consumed[e] EXCEPT ![c] = v] \in [Consumer -> {"none", "in flight", "final"}]
        BY DEF IntakeType
      <3>3. consumed' \in [Event -> [Consumer -> {"none", "in flight", "final"}]]
        BY <3>1, <3>2 DEF IntakeType
      <3> QED
        BY <2>1, <3>3 DEF IntakeType
    <2>3. PlacesInv' /\ RequestInv' /\ AlertRowHasLineage' /\ \A x : AlertOf(x)' = AlertOf(x)
      BY <2>1, WindowsKept
    <2>4. e \in staged
      BY <1>2 DEF Begin, Settle, ClaimInv
    <2>5. \A x \in Event \ staged : consumed'[x] = consumed[x]
      BY <1>2, <2>4 DEF Begin, Settle, IntakeType
    <2>6. ClaimInv'
      BY <2>1, <2>3, <2>5 DEF ClaimInv
    <2> QED
      BY <2>2, <2>3, <2>6
  <1>3. CASE on_cluster_evidence(e)
    <2>1. UNCHANGED <<live, archive, staged, claimed, incident, alertRow, req>>
      BY <1>3 DEF on_cluster_evidence
    <2>2. PICK joined \in IF e \in AlertEvent THEN AlertOf(e)
                          ELSE {NoEvent} \cup {a \in Labelled : live[a] # NoEvent} :
              built' = [built EXCEPT ![e] = incident_claim_identity(e, joined)]
      BY <1>3 DEF on_cluster_evidence
    <2>3. IntakeType'
      BY <1>3, <2>1, <2>2 DEF on_cluster_evidence, IntakeType, incident_claim_identity, Signal, Consumer
    <2>4. PlacesInv' /\ RequestInv' /\ AlertRowHasLineage' /\ \A x : AlertOf(x)' = AlertOf(x)
      BY <2>1, WindowsKept
    <2>5. e \in staged
      BY <1>3 DEF on_cluster_evidence, ClaimInv, Consumer
    <2>6. \A x \in Event \ staged : consumed'[x] = consumed[x] /\ built'[x] = built[x]
      BY <1>3, <2>2, <2>5 DEF on_cluster_evidence, IntakeType
    <2>7. \A a \in Labelled : e \in AlertEvent /\ a \in AlertOf(e) => built'[e] = a
      <3>1. \A a \in Labelled : e \in AlertEvent /\ a \in AlertOf(e) => joined = a
        BY <2>2 DEF PlacesInv
      <3> QED
        BY <2>2, <3>1 DEF incident_claim_identity, IntakeType
    <2>8. \A x \in Event : x # e => built'[x] = built[x]
      BY <2>2 DEF IntakeType
    <2>9. ClaimInv'
      BY <2>1, <2>4, <2>6, <2>7, <2>8 DEF ClaimInv, Event
    <2> QED
      BY <2>3, <2>4, <2>9
  <1>4. CASE on_evidence_built(e)
    <2>1. UNCHANGED <<live, archive, staged, consumed, alertRow, req>>
      BY <1>4 DEF on_evidence_built
    <2>2. IntakeType'
      <3>1. built' \in [Event -> Signal \cup {"no", "handled"}]
        BY <1>4 DEF on_evidence_built, IntakeType
      <3>2. claimed' \in [Signal -> Event \cup {NoEvent}]
        <4>1. claimed' = [claimed EXCEPT ![built[e]] = e] \/ claimed' = claimed
          BY <1>4 DEF on_evidence_built
        <4> QED
          BY <4>1 DEF IntakeType
      <3>3. incident' \in [Event -> {"none", "open", "completed"}]
        BY <1>4 DEF on_evidence_built, IntakeType
      <3> QED
        BY <2>1, <3>1, <3>2, <3>3 DEF IntakeType
    <2>3. PlacesInv' /\ RequestInv' /\ AlertRowHasLineage' /\ \A x : AlertOf(x)' = AlertOf(x)
      BY <2>1, WindowsKept
    <2>4. e \in staged
      BY <1>4, IntakeAssumption DEF on_evidence_built, ClaimInv, Signal, Event
    <2>5. \A x \in Event : x # e => built'[x] = built[x] /\ incident'[x] = incident[x]
      BY <1>4 DEF on_evidence_built, IntakeType
    <2>6. built'[e] = "handled" /\ "handled" \notin Signal
      BY <1>4, IntakeAssumption DEF on_evidence_built, IntakeType, Signal, Event
    <2>7. \A s \in Signal : claimed[s] # NoEvent => claimed'[s] = claimed[s]
      BY <1>4 DEF on_evidence_built, IntakeType
    <2>8. incident'[e] # "none" => incident[e] # "none" \/ claimed'[built[e]] = e
      BY <1>4 DEF on_evidence_built, IntakeType
    <2>9. ASSUME NEW x \in AlertEvent, NEW a \in Labelled, a \in AlertOf(x), incident'[x] # "none"
          PROVE  claimed'[a] = x
      <3>1. a \in Signal /\ x \in Event /\ x # NoEvent
        BY IntakeAssumption DEF Signal, Event
      <3>2. CASE incident[x] # "none"
        BY <2>7, <2>9, <3>1, <3>2 DEF ClaimInv
      <3>3. CASE incident[x] = "none"
        <4>1. x = e
          BY <2>5, <2>9, <3>1, <3>3
        <4>2. built[e] = a
          BY <1>4, <2>9, <4>1 DEF ClaimInv, on_evidence_built
        <4> QED
          BY <2>8, <2>9, <3>3, <4>1, <4>2
      <3> QED
        BY <3>2, <3>3
    <2>10. ClaimInv'
      BY <2>1, <2>3, <2>4, <2>5, <2>6, <2>9 DEF ClaimInv, Event
    <2> QED
      BY <2>2, <2>3, <2>10
  <1>5. CASE Complete(e)
    <2>1. UNCHANGED <<live, archive, staged, consumed, built, claimed, alertRow, req>>
      BY <1>5 DEF Complete
    <2>2. IntakeType'
      BY <1>5, <2>1 DEF Complete, IntakeType
    <2>3. PlacesInv' /\ RequestInv' /\ AlertRowHasLineage' /\ \A x : AlertOf(x)' = AlertOf(x)
      BY <2>1, WindowsKept
    <2>4. \A x \in Event : incident'[x] # "none" <=> incident[x] # "none"
      BY <1>5 DEF Complete, IntakeType
    <2>5. ClaimInv'
      BY <2>1, <2>3, <2>4 DEF ClaimInv, Event
    <2> QED
      BY <2>2, <2>3, <2>5
  <1> QED
    BY <1>1, <1>2, <1>3, <1>4, <1>5 DEF Workers

LEMMA RequestIsTyped ==
  ASSUME IntakeInv, NEW r \in Request, req[r].at # "idle"
  PROVE  req[r] \in Pending
  <1>1. req[r] \in Pending \cup {Idle}
    BY DEF IntakeInv, IntakeType
  <1> QED
    BY <1>1 DEF Idle

\* A request that only remembers something more: the new entry is right.
LEMMA RequestKept ==
  ASSUME IntakeInv, NEW r \in Request, NEW q \in Pending \cup {Idle},
         req' = [req EXCEPT ![r] = q],
         UNCHANGED <<live, archive, staged, consumed, built, claimed, incident>>,
         q.at \in {"classify", "rotate"} => q.seen \in AlertEvent /\ q.alert \in AlertOf(q.seen),
         q.at = "persist" /\ q.event # NoEvent => q.alert \in AlertOf(q.event),
         alertRow' \in [Alert -> [status : {"none", "firing", "resolved"}, incident : Event \cup {NoEvent}]],
         \A a \in Alert : alertRow'[a].incident # NoEvent => a \in AlertOf(alertRow'[a].incident)
  PROVE  IntakeInv'
  <1> USE DEF IntakeInv
  <1>1. \A e : AlertOf(e)' = AlertOf(e)
    BY DEF AlertOf
  <1>2. IntakeType'
    BY DEF IntakeType
  <1>3. PlacesInv'
    BY <1>1 DEF PlacesInv
  <1>4. \A x \in Request : req'[x] = IF x = r THEN q ELSE req[x]
    BY DEF IntakeType
  <1>5. RequestInv'
    BY <1>1, <1>4 DEF RequestInv
  <1>6. ClaimInv'
    BY <1>1 DEF ClaimInv
  <1>7. AlertRowHasLineage'
    BY <1>1 DEF AlertRowHasLineage
  <1> QED
    BY <1>2, <1>3, <1>5, <1>6, <1>7

\* The alert ledger takes an incident only from its caller.
LEMMA UpsertMeans ==
  ASSUME IntakeInv, NEW a \in Alert, NEW status \in {"firing", "resolved"}, NEW i \in Event \cup {NoEvent},
         upsert_external_alert_event(a, status, i), i # NoEvent => a \in AlertOf(i)
  PROVE  /\ alertRow' \in [Alert -> [status : {"none", "firing", "resolved"}, incident : Event \cup {NoEvent}]]
         /\ \A x \in Alert : alertRow'[x].incident # NoEvent => x \in AlertOf(alertRow'[x].incident)
  <1> DEFINE kept == alertRow[a].status = "resolved" /\ status # "resolved"
                       /\ ~(i # NoEvent /\ alertRow[a].incident # NoEvent /\ i # alertRow[a].incident)
             row == [status |-> IF kept THEN alertRow[a].status ELSE status,
                     incident |-> IF i # NoEvent THEN i ELSE alertRow[a].incident]
  <1>1. alertRow' = [alertRow EXCEPT ![a] = row]
    BY DEF upsert_external_alert_event
  <1>2. row \in [status : {"none", "firing", "resolved"}, incident : Event \cup {NoEvent}]
    BY DEF IntakeInv, IntakeType
  <1>3. row.incident # NoEvent => a \in AlertOf(row.incident)
    BY DEF IntakeInv, AlertRowHasLineage
  <1> HIDE DEF row
  <1> QED
    BY <1>1, <1>2, <1>3 DEF IntakeInv, IntakeType, AlertRowHasLineage

\* An alert's key is pointed at a fresh event, the old one archived.
LEMMA PointAtStep ==
  ASSUME IntakeInv, NEW r \in Request, req[r].at # "idle", PointAt(r),
         archive' = archive \cup {<<req[r].alert, x>> : x \in {live[req[r].alert]} \ {NoEvent}},
         UNCHANGED <<consumed, built, claimed, incident, alertRow>>
  PROVE  IntakeInv'
  <1> USE DEF IntakeInv
  <1>1. PICK e \in AlertEvent \ staged :
            /\ live' = [live EXCEPT ![req[r].alert] = e] /\ staged' = staged \cup {e}
            /\ req' = [req EXCEPT ![r] = [req[r] EXCEPT !.at = "persist", !.event = e]]
    BY DEF PointAt
  <1>2. req[r] \in Pending
    BY RequestIsTyped
  <1>3. PICK a \in Alert : a = req[r].alert
    BY <1>2 DEF Pending
  <1>4. PICK q \in Pending : /\ req' = [req EXCEPT ![r] = q]
                             /\ q.at = "persist" /\ q.event = e /\ q.alert = a
    <2> DEFINE q0 == [req[r] EXCEPT !.at = "persist", !.event = e]
    <2>1. q0 \in Pending /\ q0.at = "persist" /\ q0.event = e /\ q0.alert = a
      BY <1>1, <1>2, <1>3 DEF Pending, Phase, Event
    <2>2. req' = [req EXCEPT ![r] = q0]
      BY <1>1
    <2> HIDE DEF q0
    <2> QED
      BY <2>1, <2>2
  <1>5. /\ NoEvent \notin Event /\ e \in Event /\ e # NoEvent
        /\ \A x \in AlertEvent : x \in Event
    BY <1>1, IntakeAssumption DEF Event
  <1>6. live[a] \in AlertEvent \cup {NoEvent}
    BY <1>3 DEF IntakeType
  <1>7. AlertOf(e) = {} /\ \A b \in Alert : live[b] # e /\ <<b, e>> \notin archive
    BY <1>1 DEF PlacesInv, AlertOf
  <1>16. /\ \A b \in Alert : live'[b] = IF b = a THEN e ELSE live[b]
         /\ \A b, x : <<b, x>> \in archive' <=> <<b, x>> \in archive \/ (b = a /\ x = live[a] /\ x # NoEvent)
    BY <1>1, <1>3 DEF IntakeType
  <1>8. AlertOf(e)' = {a}
    BY <1>3, <1>7, <1>16 DEF AlertOf
  <1>9. ASSUME NEW x \in Event, x # e PROVE AlertOf(x)' = AlertOf(x)
    BY <1>3, <1>5, <1>9, <1>16 DEF AlertOf
  <1>10. IntakeType'
    <2>1. live' \in [Alert -> AlertEvent \cup {NoEvent}] /\ staged' \subseteq Event
      BY <1>1, <1>3, <1>5 DEF IntakeType
    <2>2. archive' \subseteq Alert \X AlertEvent
      <3> DEFINE old == {<<req[r].alert, x>> : x \in {live[req[r].alert]} \ {NoEvent}}
      <3>1. \A p \in old : p \in Alert \X AlertEvent
        BY <1>3, <1>6
      <3>2. archive' = archive \cup old /\ archive \subseteq Alert \X AlertEvent
        BY DEF IntakeType
      <3> HIDE DEF old
      <3> QED
        BY <3>1, <3>2
    <2>3. req' \in [Request -> Pending \cup {Idle}]
      BY <1>4 DEF IntakeType
    <2> QED
      BY <2>1, <2>2, <2>3 DEF IntakeType
  <1>11. PlacesInv'
    <2>1. \A x \in AlertEvent : x \in staged' <=> AlertOf(x)' # {}
      BY <1>1, <1>5, <1>8, <1>9 DEF PlacesInv
    <2>2. \A x \in AlertEvent : \A b, c \in AlertOf(x)' : b = c
      BY <1>5, <1>8, <1>9 DEF PlacesInv
    <2>3. \A b \in Alert : <<b, live'[b]>> \notin archive'
      BY <1>7, <1>16 DEF PlacesInv
    <2> QED
      BY <2>1, <2>2, <2>3 DEF PlacesInv
  <1>12. \A x \in Event : AlertOf(x) \subseteq AlertOf(x)'
    BY <1>7, <1>9
  <1>13. RequestInv'
    <2>1. \A s \in Request : req'[s] = IF s = r THEN q ELSE req[s]
      BY <1>4 DEF IntakeType
    <2>2. \A x \in Event : \A b \in AlertOf(x) : b \in Alert /\ (live'[b] = x \/ <<b, x>> \in archive')
      BY <1>12 DEF AlertOf
    <2>3. ASSUME NEW s \in Request, req'[s].at \in {"classify", "rotate"}
          PROVE  /\ req'[s].seen \in AlertEvent /\ req'[s].alert \in Alert
                 /\ live'[req'[s].alert] = req'[s].seen \/ <<req'[s].alert, req'[s].seen>> \in archive'
      BY <1>4, <1>5, <2>1, <2>2, <2>3 DEF RequestInv
    <2>4. ASSUME NEW s \in Request, req'[s].at = "persist", req'[s].event # NoEvent
          PROVE  /\ req'[s].alert \in Alert
                 /\ live'[req'[s].alert] = req'[s].event \/ <<req'[s].alert, req'[s].event>> \in archive'
      <3>1. CASE s = r
        BY <1>4, <1>16, <2>1, <3>1
      <3>2. CASE s # r
        <4>1. req'[s] = req[s] /\ req[s].at # "idle"
          BY <2>1, <2>4, <3>2
        <4>2. req[s].event \in Event
          BY <2>4, <4>1, RequestIsTyped DEF Pending
        <4> QED
          BY <2>2, <2>4, <4>1, <4>2 DEF RequestInv
      <3> QED
        BY <3>1, <3>2
    <2> QED
      BY <2>3, <2>4 DEF RequestInv, AlertOf
  <1>14. ClaimInv'
    <2>1. built[e] = "no" /\ incident[e] = "none" /\ "no" \notin Signal
      BY <1>1, <1>5, IntakeAssumption DEF ClaimInv, Signal, Event
    <2> QED
      BY <1>1, <1>8, <1>9, <2>1 DEF ClaimInv, Event
  <1>15. AlertRowHasLineage'
    BY <1>12 DEF AlertRowHasLineage, IntakeType
  <1> QED
    BY <1>10, <1>11, <1>13, <1>14, <1>15

LEMMA DuplicateStep ==
  ASSUME IntakeInv, NEW r \in Request, req[r].at # "idle", Duplicate(r),
         UNCHANGED <<archive, consumed, built, claimed, incident, alertRow>>
  PROVE  IntakeInv'
  <1>1. req[r] \in Pending
    BY RequestIsTyped
  <1>2. req[r].alert \in Alert /\ live[req[r].alert] \in Event \cup {NoEvent}
    BY <1>1 DEF IntakeInv, IntakeType, Pending, Event
  <1>3. PICK q \in Pending : /\ req' = [req EXCEPT ![r] = q]
                             /\ q.at = "persist" /\ q.event = live[q.alert] /\ q.alert \in Alert
    <2> DEFINE q0 == [req[r] EXCEPT !.at = "persist", !.event = live[req[r].alert]]
    <2>1. q0 \in Pending /\ q0.at = "persist" /\ q0.event = live[q0.alert] /\ q0.alert \in Alert
      BY <1>1, <1>2 DEF Pending, Phase
    <2>2. req' = [req EXCEPT ![r] = q0]
      BY DEF Duplicate
    <2> HIDE DEF q0
    <2> QED
      BY <2>1, <2>2
  <1>4. q.alert \in AlertOf(q.event) /\ UNCHANGED <<live, staged>>
    BY <1>3 DEF AlertOf, Duplicate
  <1> QED
    BY <1>3, <1>4, RequestKept DEF IntakeInv, IntakeType, AlertRowHasLineage

LEMMA WebhookStep == ASSUME IntakeInv, NEW r \in Request, Webhook(r) PROVE IntakeInv'
  <1> DEFINE rows == [Alert -> [status : {"none", "firing", "resolved"}, incident : Event \cup {NoEvent}]]
  <1>0. /\ alertRow \in rows
        /\ \A a \in Alert : alertRow[a].incident # NoEvent => a \in AlertOf(alertRow[a].incident)
    BY DEF IntakeInv, IntakeType, AlertRowHasLineage
  <1>1. ASSUME NEW a \in Alert, get_evidence_window(r, a) PROVE IntakeInv'
    <2>1. PICK q \in Pending : /\ req' = [req EXCEPT ![r] = q] /\ q.alert = a /\ q.event = NoEvent /\ q.seen = live[a]
                               /\ q.at = IF live[a] = NoEvent THEN "record" ELSE "classify"
      <3> DEFINE q0 == [at |-> IF live[a] = NoEvent THEN "record" ELSE "classify",
                        alert |-> a, event |-> NoEvent, seen |-> live[a]]
      <3>1. q0 \in Pending
        BY DEF Pending, Phase, IntakeInv, IntakeType, Event
      <3> QED
        BY <1>1, <3>1 DEF get_evidence_window
    <2>2. q.at = "classify" => q.seen \in AlertEvent /\ q.alert \in AlertOf(q.seen)
      BY <2>1 DEF AlertOf, IntakeInv, IntakeType
    <2>3. UNCHANGED <<live, archive, staged, consumed, built, claimed, incident, alertRow>>
      BY <1>1 DEF get_evidence_window
    <2> QED
      BY <1>0, <2>1, <2>2, <2>3, RequestKept
  <1>2. CASE Classify(r)
    <2>1. req[r] \in Pending
      BY <1>2, RequestIsTyped DEF Classify
    <2>2. req[r].seen \in AlertEvent /\ req[r].alert \in AlertOf(req[r].seen)
      BY <1>2 DEF Classify, IntakeInv, RequestInv
    <2>3. PICK reopen \in BOOLEAN :
              req' = [req EXCEPT ![r].at = IF reopen THEN "rotate" ELSE "persist",
                                 ![r].event = IF reopen THEN @ ELSE req[r].seen]
      BY <1>2 DEF Classify
    <2> DEFINE q0 == [req[r] EXCEPT !.at = IF reopen THEN "rotate" ELSE "persist",
                                    !.event = IF reopen THEN @ ELSE req[r].seen]
    <2>4. /\ q0 \in Pending
          /\ q0.seen = req[r].seen /\ q0.alert = req[r].alert
          /\ q0.at = "rotate" \/ (q0.at = "persist" /\ q0.event = req[r].seen)
      BY <2>1 DEF Pending, Phase
    <2>5. req' = [req EXCEPT ![r] = q0]
      BY <2>3
    <2>6. UNCHANGED <<live, archive, staged, consumed, built, claimed, incident, alertRow>>
      BY <1>2 DEF Classify
    <2>7. PICK q : q = q0
      OBVIOUS
    <2> HIDE DEF q0
    <2> QED
      BY <1>0, <2>2, <2>4, <2>5, <2>6, <2>7, RequestKept
  <1>3. CASE record_evidence_event_once(r)
    <2>1. req[r].at # "idle"
      BY <1>3 DEF record_evidence_event_once
    <2>2. UNCHANGED <<archive, consumed, built, claimed, incident, alertRow>>
      BY <1>3 DEF record_evidence_event_once
    <2>3. CASE live[req[r].alert] = NoEvent
      <3>1. archive' = archive \cup {<<req[r].alert, x>> : x \in {live[req[r].alert]} \ {NoEvent}}
        BY <2>2, <2>3
      <3> QED
        BY <1>3, <2>1, <2>2, <2>3, <3>1, PointAtStep DEF record_evidence_event_once
    <2>4. CASE live[req[r].alert] # NoEvent
      BY <1>3, <2>1, <2>2, <2>4, DuplicateStep DEF record_evidence_event_once
    <2> QED
      BY <2>3, <2>4
  <1>4. CASE rotate_alertmanager_evidence_window(r)
    <2>1. req[r].at = "rotate" /\ req[r].seen # NoEvent
      BY <1>4, IntakeAssumption DEF rotate_alertmanager_evidence_window, IntakeInv, RequestInv
    <2>2. UNCHANGED <<consumed, built, claimed, incident, alertRow>>
      BY <1>4 DEF rotate_alertmanager_evidence_window
    <2>3. CASE live[req[r].alert] = req[r].seen
      <3>1. archive' = archive \cup {<<req[r].alert, req[r].seen>>} /\ PointAt(r)
        BY <1>4, <2>3 DEF rotate_alertmanager_evidence_window
      <3>2. archive' = archive \cup {<<req[r].alert, x>> : x \in {live[req[r].alert]} \ {NoEvent}}
        BY <2>1, <2>3, <3>1
      <3> QED
        BY <2>1, <2>2, <3>1, <3>2, PointAtStep
    <2>4. CASE live[req[r].alert] # req[r].seen
      BY <1>4, <2>1, <2>2, <2>4, DuplicateStep DEF rotate_alertmanager_evidence_window
    <2> QED
      BY <2>3, <2>4
  <1>5. CASE persist_alertmanager_alert_events(r)
    <2>1. req[r] \in Pending
      BY <1>5, RequestIsTyped DEF persist_alertmanager_alert_events
    <2>2. /\ req[r].alert \in Alert /\ req[r].event \in Event \cup {NoEvent}
          /\ req[r].event # NoEvent => req[r].alert \in AlertOf(req[r].event)
      BY <1>5, <2>1 DEF persist_alertmanager_alert_events, IntakeInv, RequestInv, Pending
    <2>3. /\ upsert_external_alert_event(req[r].alert, "firing", req[r].event)
          /\ req' = [req EXCEPT ![r] = Idle]
          /\ UNCHANGED <<live, archive, staged, consumed, built, claimed, incident>>
      BY <1>5 DEF persist_alertmanager_alert_events
    <2>4. /\ alertRow' \in rows
          /\ \A x \in Alert : alertRow'[x].incident # NoEvent => x \in AlertOf(alertRow'[x].incident)
      BY <2>2, <2>3, UpsertMeans
    <2> QED
      BY <2>3, <2>4, RequestKept DEF Idle
  <1>6. CASE RequestDies(r)
    BY <1>0, <1>6, RequestKept DEF RequestDies, Idle
  <1> QED
    BY <1>1, <1>2, <1>3, <1>4, <1>5, <1>6 DEF Webhook

LEMMA IntakeStep == IntakeInv /\ [IntakeNext]_intakeVars => IntakeInv'
  <1> SUFFICES ASSUME IntakeInv, [IntakeNext]_intakeVars PROVE IntakeInv'
    OBVIOUS
  <1>1. ASSUME NEW a \in Alert, Resolve(a) PROVE IntakeInv'
    <2>1. UNCHANGED <<live, archive, staged, consumed, built, claimed, incident, req>>
      BY <1>1 DEF Resolve
    <2>2. /\ alertRow' \in [Alert -> [status : {"none", "firing", "resolved"}, incident : Event \cup {NoEvent}]]
          /\ \A x \in Alert : alertRow'[x].incident # NoEvent => x \in AlertOf(alertRow'[x].incident)
      BY <1>1, UpsertMeans DEF Resolve
    <2>3. \A e : AlertOf(e)' = AlertOf(e)
      BY <2>1 DEF AlertOf
    <2>4. IntakeType' /\ PlacesInv'
      BY <2>1, <2>2, <2>3 DEF IntakeInv, IntakeType, PlacesInv
    <2>5. RequestInv' /\ ClaimInv'
      BY <2>1, <2>3 DEF IntakeInv, RequestInv, ClaimInv
    <2>6. AlertRowHasLineage'
      BY <2>1, <2>2 DEF AlertRowHasLineage, AlertOf
    <2> QED
      BY <2>4, <2>5, <2>6 DEF IntakeInv
  <1>2. CASE UNCHANGED intakeVars
    <2>1. UNCHANGED <<live, archive, staged, consumed, built, claimed, incident, alertRow, req>>
      BY <1>2 DEF intakeVars
    <2>2. IntakeType'
      BY <2>1 DEF IntakeInv, IntakeType
    <2>3. PlacesInv' /\ RequestInv' /\ AlertRowHasLineage' /\ \A e : AlertOf(e)' = AlertOf(e)
      BY <2>1, WindowsKept
    <2>4. ClaimInv'
      BY <2>1, <2>3 DEF IntakeInv, ClaimInv
    <2> QED
      BY <2>2, <2>3, <2>4 DEF IntakeInv
  <1> QED
    BY <1>1, <1>2, WebhookStep, WorkersStep DEF IntakeNext

\* Every notification's event is kept at exactly one alert, live or in the
\* history; an occurrence of an alert that names its target has at most one
\* incident; and the alert ledger names only incidents of its own alert:
\* whatever the webhook requests and the workers interleave to.
THEOREM AlertsKeepTheirLineage == IntakeSpec => []AlertLineage
  <1>1. IntakeInit => IntakeInv
    BY IntakeStarts
  <1>2. IntakeInv /\ [IntakeNext]_intakeVars => IntakeInv'
    BY IntakeStep
  <1>3. IntakeInv => AlertLineage
    BY InvariantMeans
  <1> QED
    BY <1>1, <1>2, <1>3, PTL DEF IntakeSpec
==============================================================================
