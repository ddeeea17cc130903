------------------------------ MODULE AlertIntake ------------------------------
(***************************************************************************)
(* From an Alertmanager notification to an incident.  The webhook reads    *)
(* the evidence window of the alert group, asks what became of the         *)
(* incident it points at, and records, keeps or rotates the window; every  *)
(* statement is a transaction of its own, so that two notifications        *)
(* interleave.  The event it stages is consumed by evidence-worker and by  *)
(* rca-feedback-worker; incident-worker claims the signal of the built     *)
(* evidence once.  An agent window that evidence-worker joins to an alert  *)
(* competes for the same claim.                                            *)
(*                                                                         *)
(* An alert stands for a group key with its firing alerts (one evidence    *)
(* key); an event stands for an envelope, its id and its correlation id.   *)
(***************************************************************************)
EXTENDS Naturals, FiniteSets

CONSTANTS
    Alert,          \* evidence keys of alert groups
    Labelled,       \* those whose single firing alert names its target
    AlertEvent,     \* envelopes of webhook notifications; bound: those staged
    AgentEvent,     \* envelopes of agent evidence windows
    Request,        \* webhook requests in progress at the same time
    MaxClose,       \* bound: incidents closed by a completed recovery
    NoEvent

ASSUME IntakeAssumption ==
    /\ Labelled \subseteq Alert /\ MaxClose \in Nat
    /\ AlertEvent \cap AgentEvent = {}
    /\ NoEvent \notin AlertEvent \cup AgentEvent
    /\ {"no", "handled"} \cap (Labelled \cup AlertEvent \cup AgentEvent) = {}

VARIABLES
    live,       \* evidence_windows: the event an alert's key points at
    archive,    \* evidence_windows: history rows, <<alert, event>>
    staged,     \* events and outbox rows
    consumed,   \* event_processing: per event and consumer
    built,      \* evidence.built events: the signal they will claim
    claimed,    \* incident_signal_claims: who claimed a signal first
    incident,   \* what became of the incident of an event
    alertRow,   \* alert_events: status and incident of an alert
    req         \* progress of the webhook requests

intakeVars == <<live, archive, staged, consumed, built, claimed, incident, alertRow, req>>

Event == AlertEvent \cup AgentEvent
Consumer == {"evidence-worker", "rca-feedback-worker"}
Signal == Labelled \cup Event
Idle == [at |-> "idle"]

IntakeInit ==
    /\ live = [a \in Alert |-> NoEvent]
    /\ archive = {}
    /\ staged = {}
    /\ consumed = [e \in Event |-> [c \in Consumer |-> "none"]]
    /\ built = [e \in Event |-> "no"]
    /\ claimed = [s \in Signal |-> NoEvent]
    /\ incident = [e \in Event |-> "none"]
    /\ alertRow = [a \in Alert |-> [status |-> "none", incident |-> NoEvent]]
    /\ req = [r \in Request |-> Idle]

(***************************************************************************)
(* The alert ledger.  A resolved row stays resolved unless the             *)
(* notification belongs to another incident than the row.                  *)
(***************************************************************************)
upsert_external_alert_event(a, status, i) ==
    LET row == alertRow[a]
        changed == i # NoEvent /\ row.incident # NoEvent /\ i # row.incident
        keeps == row.status = "resolved" /\ status # "resolved" /\ ~changed
    IN  alertRow' = [alertRow EXCEPT ![a] =
            [status |-> IF keeps THEN row.status ELSE status,
             incident |-> IF i # NoEvent THEN i ELSE row.incident]]

\* What the durable lineage says of the event a window points at.
get_alertmanager_evidence_disposition(e) ==
    CASE incident[e] = "completed" -> "terminal"
      [] incident[e] = "open" \/ \E s \in Signal : claimed[s] = e -> "active"
      [] e \notin staged -> "orphan"
      [] \E c \in Consumer : consumed[e][c] = "in flight" -> "pending"
      [] \E c \in Consumer : consumed[e][c] = "final" -> "orphan"
      [] OTHER -> "pending"

-----------------------------------------------------------------------------
(***************************************************************************)
(* alertmanager_webhook: one action per awaited statement.                 *)
(***************************************************************************)

\* A notification without a firing alert only updates the alert ledger.
Resolve(a) ==
    /\ alertRow[a].status # "none"
    /\ upsert_external_alert_event(a, "resolved", NoEvent)
    /\ UNCHANGED <<live, archive, staged, consumed, built, claimed, incident, req>>

\* A firing notification, up to its first statement: what the alert's window
\* points at.  Its own envelope is named when it is staged.
get_evidence_window(r, a) ==
    /\ req[r].at = "idle" /\ AlertEvent \ staged # {}
    /\ req' = [req EXCEPT ![r] =
          [at |-> IF live[a] = NoEvent THEN "record" ELSE "classify",
           alert |-> a, event |-> NoEvent, seen |-> live[a]]]
    /\ UNCHANGED <<live, archive, staged, consumed, built, claimed, incident, alertRow>>

Classify(r) ==
    /\ req[r].at = "classify"
    /\ LET reopen == get_alertmanager_evidence_disposition(req[r].seen)
                       \in {"orphan", "terminal"}
       IN  req' = [req EXCEPT ![r].at = IF reopen THEN "rotate" ELSE "persist",
                              ![r].event = IF reopen THEN @ ELSE req[r].seen]
    /\ UNCHANGED <<live, archive, staged, consumed, built, claimed, incident, alertRow>>

\* The window now points at the request's event, which is staged with it.
PointAt(r) ==
    LET fresh == AlertEvent \ staged
        e == CHOOSE x \in fresh : TRUE
    IN  /\ fresh # {}
        /\ live' = [live EXCEPT ![req[r].alert] = e]
        /\ staged' = staged \cup {e}
        /\ req' = [req EXCEPT ![r].at = "persist", ![r].event = e]

\* Another request was first: answer with its event.
Duplicate(r) ==
    /\ req' = [req EXCEPT ![r].at = "persist", ![r].event = live[req[r].alert]]
    /\ UNCHANGED <<live, staged>>

record_evidence_event_once(r) ==
    /\ req[r].at = "record"
    /\ IF live[req[r].alert] = NoEvent THEN PointAt(r) ELSE Duplicate(r)
    /\ UNCHANGED <<archive, consumed, built, claimed, incident, alertRow>>

\* A bug for rotate_alertmanager_evidence_window: the window found is copied to
\* the history before it is compared with the one that was read.
rotate_archives_first(r) ==
    /\ req[r].at = "rotate"
    /\ archive' = archive \cup {<<req[r].alert, live[req[r].alert]>>}
    /\ IF live[req[r].alert] = req[r].seen THEN PointAt(r) ELSE Duplicate(r)
    /\ UNCHANGED <<consumed, built, claimed, incident, alertRow>>

rotate_alertmanager_evidence_window(r) ==
    /\ req[r].at = "rotate"
    /\ IF live[req[r].alert] = req[r].seen
       THEN /\ archive' = archive \cup {<<req[r].alert, req[r].seen>>}
            /\ PointAt(r)
       ELSE Duplicate(r) /\ UNCHANGED archive
    /\ UNCHANGED <<consumed, built, claimed, incident, alertRow>>

persist_alertmanager_alert_events(r) ==
    /\ req[r].at = "persist"
    /\ upsert_external_alert_event(req[r].alert, "firing", req[r].event)
    /\ req' = [req EXCEPT ![r] = Idle]
    /\ UNCHANGED <<live, archive, staged, consumed, built, claimed, incident>>

\* The request fails, or the gateway dies, between two statements.
RequestDies(r) ==
    /\ req[r].at # "idle"
    /\ req' = [req EXCEPT ![r] = Idle]
    /\ UNCHANGED <<live, archive, staged, consumed, built, claimed, incident, alertRow>>

\* agent_evidence: an agent window is recorded and its event staged once.
agent_evidence(g) ==
    /\ g \in AgentEvent \ staged
    /\ staged' = staged \cup {g}
    /\ UNCHANGED <<live, archive, consumed, built, claimed, incident, alertRow, req>>

-----------------------------------------------------------------------------
(***************************************************************************)
(* The workers, each exactly once per event (see EventRuntime).            *)
(***************************************************************************)

\* What rca-feedback-worker does with an agent window is VerificationWindow's.
Begin(e, c) ==
    /\ e \in staged /\ consumed[e][c] = "none"
    /\ e \in AlertEvent \/ c = "evidence-worker"
    /\ consumed' = [consumed EXCEPT ![e][c] = "in flight"]
    /\ UNCHANGED <<live, archive, staged, built, claimed, incident, alertRow, req>>

\* The alert whose firing notification an event's evidence carries.
AlertOf(e) == {a \in Alert : live[a] = e \/ <<a, e>> \in archive}

\* incident_claim_identity: one alert that names its target, or else the
\* evidence itself.  An agent window carries an alert it was joined to.
incident_claim_identity(e, joined) ==
    IF joined \in Labelled THEN joined ELSE e

\* on_cluster_evidence commits with the ledger row; evidence.built is staged.
on_cluster_evidence(e) ==
    /\ consumed[e]["evidence-worker"] = "in flight"
    /\ \E joined \in IF e \in AlertEvent THEN AlertOf(e)
                     ELSE {NoEvent} \cup {a \in Labelled : live[a] # NoEvent} :
         built' = [built EXCEPT ![e] = incident_claim_identity(e, joined)]
    /\ consumed' = [consumed EXCEPT ![e]["evidence-worker"] = "final"]
    /\ UNCHANGED <<live, archive, staged, claimed, incident, alertRow, req>>

\* rca-feedback-worker has nothing to verify, or evidence-worker gives up.
Settle(e, c) ==
    /\ consumed[e][c] = "in flight"
    /\ consumed' = [consumed EXCEPT ![e][c] = "final"]
    /\ UNCHANGED <<live, archive, staged, built, claimed, incident, alertRow, req>>

\* on_evidence_built: the first event to claim a signal opens an incident.
on_evidence_built(e) ==
    /\ built[e] \in Signal
    /\ built' = [built EXCEPT ![e] = "handled"]
    /\ IF claimed[built[e]] = NoEvent
       THEN /\ claimed' = [claimed EXCEPT ![built[e]] = e]
            /\ incident' = [incident EXCEPT ![e] = "open"]
       ELSE UNCHANGED <<claimed, incident>>
    /\ UNCHANGED <<live, archive, staged, consumed, alertRow, req>>

\* The recovery plan of the incident completes (see RecoveryLifecycle).
Complete(e) ==
    /\ incident[e] = "open"
    /\ Cardinality({x \in Event : incident[x] = "completed"}) < MaxClose
    /\ incident' = [incident EXCEPT ![e] = "completed"]
    /\ UNCHANGED <<live, archive, staged, consumed, built, claimed, alertRow, req>>

Webhook(r) ==
    \/ \E a \in Alert : get_evidence_window(r, a)
    \/ Classify(r)
    \/ record_evidence_event_once(r)
    \/ rotate_alertmanager_evidence_window(r)
    \/ persist_alertmanager_alert_events(r)
    \/ RequestDies(r)

Workers(e) ==
    \/ agent_evidence(e)
    \/ \E c \in Consumer : Begin(e, c) \/ Settle(e, c)
    \/ on_cluster_evidence(e)
    \/ on_evidence_built(e)
    \/ Complete(e)

IntakeNext ==
    \/ \E a \in Alert : Resolve(a)
    \/ \E r \in Request : Webhook(r)
    \/ \E e \in Event : Workers(e)

IntakeSpec == IntakeInit /\ [][IntakeNext]_intakeVars
-----------------------------------------------------------------------------

\* No rotation loses evidence: an event staged for an alert is the one its
\* window points at or is kept in a history row, each in exactly one place,
\* however two rotations of the same window interleave
\* (rotate_alertmanager_evidence_window).
EvidenceKept ==
    /\ \A e \in AlertEvent : e \in staged <=> AlertOf(e) # {}
    /\ \A e \in AlertEvent : Cardinality(AlertOf(e)) <= 1
    /\ \A a \in Alert : <<a, live[a]>> \notin archive

\* One occurrence of an alert that names its target opens one incident,
\* whatever repeats it, rotates it or joins an agent window to it
\* (incident_alertmanager_identity and claim_incident_signal).
OneIncidentPerOccurrence ==
    \A a \in Labelled :
        Cardinality({e \in Event : incident[e] # "none"
                        /\ (a \in AlertOf(e) \/ claimed[a] = e)}) <= 1

\* A row of the alert ledger names an incident of this alert, and only ever
\* an event that was staged, so that a reader can follow it
\* (persist_alertmanager_alert_events after a duplicate).
AlertRowHasLineage ==
    \A a \in Alert :
        alertRow[a].incident # NoEvent => a \in AlertOf(alertRow[a].incident)

\* From the notification to the incident nothing is lost, doubled or left
\* without its origin: the three statements above together
\* (alertmanager_webhook and the workers behind it).
AlertLineage == EvidenceKept /\ OneIncidentPerOccurrence /\ AlertRowHasLineage
================================================================================
