--------------------------- MODULE TimelineLedger ---------------------------
(***************************************************************************)
(* The append-only timeline ledger (domains/timeline): writers append      *)
(* facts inside larger units of work, a reader takes a snapshot and then   *)
(* resumes from its signed cursor page by page, and browser tabs edit the  *)
(* reader's pin set.  PostgreSQL runs at READ COMMITTED, so two statements *)
(* of one read may see different cuts of the tables.                       *)
(*                                                                         *)
(* Optional values and JSON paths are sets of at most one element, so that *)
(* an SQL NULL is the empty set.                                           *)
(***************************************************************************)
EXTENDS Integers, Sequences, FiniteSets, FiniteSetsExt, SequencesExt

CONSTANTS
    Workspaces,     \* what may happen in a workspace: the batches of facts the units
                    \* of work append, the queries the reader sends, what the reader
                    \* may be granted source by source, the subjects they may pin,
                    \* the browser tabs they do it in, and the bound of the clock
    Appender,
    Limit,          \* records per read
    MaxPinRevision, \* bound: changes of the pin set
    MaxRegrants     \* bound: changes of the grants

VARIABLES
    workspace,      \* one of Workspaces
    ledgerCursor,   \* last_sequence and retained_from_sequence
    ledgerRows,     \* the committed rows
    appending,      \* Appender -> its open transaction
    announced,      \* source keys reported as inserted, with their count
    pinSet,         \* the stored pins and their revision
    tabs,           \* Tab -> the pin set as the tab last read it
    granted, regrants,
    reader,         \* the timeline session
    ledgerTime

ledgerVars == <<ledgerCursor, ledgerRows, appending, announced>>
pinVars == <<pinSet, tabs>>
worldVars == <<workspace, granted, regrants, ledgerTime>>
timelineVars == <<ledgerVars, pinVars, worldVars, reader>>

-----------------------------------------------------------------------------
\* Events, and the rows they are stored as.

NoSubject == [kind |-> "incident", resource |-> {}, locator |-> {}, application |-> {}]

\* A UID that was observed makes a resource subject, anything else a locator.
inventory_timeline_event(key, cluster, kind, ns, uid, at) ==
    LET ref == [kind |-> kind, namespace |-> ns, uid |-> uid]
    IN  [source_key |-> key, source |-> "inventory", cluster |-> cluster, activity |-> "change",
         event_type |-> "update", occurred_at |-> at,
         resource |-> IF uid = "" THEN {} ELSE {ref},
         subject |-> IF uid = "" THEN [NoSubject EXCEPT !.kind = "inventory_locator", !.locator = {ref}]
                                 ELSE [NoSubject EXCEPT !.kind = "resource", !.resource = {ref}]]

validate_exact_resource_relation(e) ==
    /\ e.source \in {"application_workflow", "gitops"} => e.subject.kind = "application_workflow"
    /\ e.subject.kind = "resource" => e.resource = e.subject.resource /\ e.resource # {}
    /\ e.subject.kind = "inventory_locator" => e.resource = {}

ASSUME TimelineAssumption ==
    \A w \in Workspaces : \A b \in w.batches :
        Len(b) > 0 /\ \A i \in DOMAIN b : validate_exact_resource_relation(b[i])

\* A JSON path of a column: NULL where a step of the path is missing.
Path(object, field) == {o[field] : o \in object}

event_namespace(e) ==
    UNION (Path(e.resource, "namespace") \cup
           (IF e.resource = {} THEN Path(e.subject.locator, "namespace") ELSE {}))

event_values(e, sequence) ==
    [sequence |-> sequence, namespace |-> event_namespace(e), source_key |-> e.source_key,
     source |-> e.source, cluster |-> e.cluster, activity |-> e.activity,
     event_type |-> e.event_type, occurred_at |-> e.occurred_at, subject |-> e.subject,
     resource |-> e.resource]

event_from_row(r) ==
    [source_key |-> r.source_key, source |-> r.source, cluster |-> r.cluster,
     activity |-> r.activity, event_type |-> r.event_type, occurred_at |-> r.occurred_at,
     subject |-> r.subject, resource |-> r.resource]

-----------------------------------------------------------------------------
\* Membership of one event, as the Python guard computes it.

scope_matches(e, scopes) ==
    \E s \in scopes : /\ e.cluster = s.cluster
                      /\ s.namespaces # {} => event_namespace(e) \cap s.namespaces # {}

source_is_authorized(e, grants) ==
    IF e.source \in {"inventory", "kubernetes_event", "incident"}
    THEN e.cluster \in grants[e.source]
    ELSE e.subject.kind = "application_workflow" /\ e.subject.application \cap grants[e.source] # {}

is_within_snapshot_window(e, q) == q.from <= e.occurred_at /\ e.occurred_at < q.to

is_within_stream_window(e, q, clock) ==
    /\ q.from <= e.occurred_at
    /\ IF q.mode = "frozen" THEN e.occurred_at < q.to ELSE e.occurred_at <= clock

resource_kind(e) ==
    CASE e.resource # {} -> Path(e.resource, "kind")
      [] e.subject.kind = "resource" -> Path(e.subject.resource, "kind")
      [] OTHER -> Path(e.subject.locator, "kind")

\* The texts a search looks into.
search_values(e) ==
    {e.source_key} \cup Path(e.resource, "kind") \cup Path(e.resource, "uid") \cup
    CASE e.subject.kind = "resource" ->
            Path(e.subject.resource, "kind") \cup Path(e.subject.resource, "uid")
      [] e.subject.kind = "inventory_locator" -> Path(e.subject.locator, "kind")
      [] e.subject.kind = "application_workflow" -> e.subject.application
      [] OTHER -> {}

matches_filters(e, q) ==
    /\ q.activity # {} => e.activity \in q.activity
    /\ q.kinds # {} => resource_kind(e) \cap q.kinds # {}
    /\ ~q.include_deleted => e.event_type # "delete"
    /\ q.search # "" => q.search \in search_values(e)

matches_pins(e, p) ==
    p.query.pinned_only =>
        LET resource == IF e.resource # {} THEN e.resource ELSE e.subject.resource
        IN  \/ \E r \in resource : <<e.cluster, r.uid>> \in p.pins
            \/ e.subject.kind = "application_workflow"
               /\ \E a \in e.subject.application : <<"application", a>> \in p.pins

matches_snapshot(e, p) ==
    /\ scope_matches(e, p.query.scopes) /\ source_is_authorized(e, p.grants)
    /\ is_within_snapshot_window(e, p.query) /\ matches_filters(e, p.query) /\ matches_pins(e, p)

matches_stream(e, p, clock) ==
    /\ scope_matches(e, p.query.scopes) /\ source_is_authorized(e, p.grants)
    /\ is_within_stream_window(e, p.query, clock)
    /\ matches_filters(e, p.query) /\ matches_pins(e, p)

-----------------------------------------------------------------------------
\* Membership of one row, as the SQL statement computes it.

In(column, values) == column # {} /\ column \subseteq values

scope_sql_predicate(r, scopes) ==
    \E s \in scopes : r.cluster = s.cluster /\ (s.namespaces # {} => In(r.namespace, s.namespaces))

source_authorization_sql_predicate(r, grants) ==
    \E source \in {s \in DOMAIN grants : grants[s] # {}} :
        /\ r.source = source
        /\ IF source \in {"inventory", "kubernetes_event", "incident"}
           THEN r.cluster \in grants[source]
           ELSE In(r.subject.application, grants[source])

pin_membership_sql_predicate(r, pins) ==
    \E pin \in pins :
        IF pin[1] = "application" THEN In(r.subject.application, {pin[2]})
        ELSE /\ r.cluster = pin[1]
             /\ \/ In(Path(r.resource, "uid"), {pin[2]})
                \/ In(Path(r.subject.resource, "uid"), {pin[2]})

timeline_resource_kind_sql(r) ==
    CASE r.resource # {} -> Path(r.resource, "kind")
      [] r.subject.resource # {} -> Path(r.subject.resource, "kind")
      [] OTHER -> Path(r.subject.locator, "kind")

search_columns(r) ==
    {r.source_key} \cup Path(r.resource, "kind") \cup Path(r.resource, "uid")
    \cup Path(r.subject.resource, "kind") \cup Path(r.subject.resource, "uid")
    \cup Path(r.subject.locator, "kind") \cup r.subject.application

\* The snapshot phase, and a frozen stream, end at the window; a live stream at
\* the database's own clock.
timeline_evidence_sql_predicate(r, p, phase) ==
    LET q == p.query
    IN  /\ scope_sql_predicate(r, q.scopes)
        /\ source_authorization_sql_predicate(r, p.grants)
        /\ r.occurred_at >= q.from
        /\ IF phase = "snapshot" \/ q.mode = "frozen" THEN r.occurred_at < q.to
                                                      ELSE r.occurred_at <= ledgerTime
        /\ q.activity # {} => r.activity \in q.activity
        /\ q.kinds # {} => In(timeline_resource_kind_sql(r), q.kinds)
        /\ ~q.include_deleted => r.event_type # "delete"
        /\ q.search # "" => q.search \in search_columns(r)
        /\ q.pinned_only => pin_membership_sql_predicate(r, p.pins)

-----------------------------------------------------------------------------
\* Appending.

NoAppend == [open |-> FALSE, rows |-> {}, last |-> 0, inserted |-> <<>>]

\* A bug for CursorLocked: the cursor is read without FOR UPDATE.
CursorNeverLocked == FALSE

\* The cursor row is locked by the unit of work until it ends.
CursorLocked == \E w \in Appender : appending[w].open

\* One number per source key not stored yet; only the first occurrence of a key
\* in the batch is reported as inserted.
append_timeline_events(w) ==
    /\ ~CursorLocked
    /\ \E batch \in workspace.batches :
          LET first == SelectSeq([i \in DOMAIN batch |-> i],
                                 LAMBDA i : /\ \A j \in 1..(i - 1) : batch[j].source_key # batch[i].source_key
                                            /\ \A r \in ledgerRows : r.source_key # batch[i].source_key)
              new == [n \in DOMAIN first |-> batch[first[n]]]
          IN  appending' = [appending EXCEPT ![w] =
                 [open |-> TRUE, last |-> ledgerCursor.last + Len(new),
                  rows |-> {event_values(new[n], ledgerCursor.last + n) : n \in DOMAIN new},
                  inserted |-> [n \in DOMAIN new |-> new[n].source_key]]]
    /\ UNCHANGED <<ledgerCursor, ledgerRows, announced, pinVars, worldVars, reader>>

\* The end of the unit of work; the fan-out announces what it inserted.
fanout_committed_timeline_append(w) ==
    /\ appending[w].open
    /\ ledgerCursor' = [ledgerCursor EXCEPT !.last = appending[w].last]
    /\ ledgerRows' = ledgerRows \cup appending[w].rows
    /\ announced' = announced \o [n \in DOMAIN appending[w].inserted |->
                                     [source_key |-> appending[w].inserted[n], at |-> ledgerTime]]
    /\ appending' = [appending EXCEPT ![w] = NoAppend]
    /\ UNCHANGED <<pinVars, worldVars, reader>>

RollBackAppend(w) ==
    /\ appending[w].open
    /\ appending' = [appending EXCEPT ![w] = NoAppend]
    /\ UNCHANGED <<ledgerCursor, ledgerRows, announced, pinVars, worldVars, reader>>

\* Only forwards; the facts stay stored.
advance_timeline_retention ==
    /\ ~CursorLocked
    /\ \E sequence \in 2..(ledgerCursor.last + 1) :
          ledgerCursor' = [ledgerCursor EXCEPT !.retained = Max({@, sequence})]
    /\ UNCHANGED <<ledgerRows, appending, announced, pinVars, worldVars, reader>>

timeline_diagnostics == [event_count |-> ledgerCursor.last, retained |-> ledgerCursor.retained]

-----------------------------------------------------------------------------
\* Pins.  A mutation is one transaction under the lock of the revision row; a
\* read is two statements, the revision first.

read_pin_revision(t) ==
    /\ tabs' = [tabs EXCEPT ![t] = [reading |-> TRUE, revision |-> pinSet.revision, pins |-> {}]]
    /\ UNCHANGED <<ledgerVars, pinSet, worldVars, reader>>

read_timeline_pin_set(t) ==
    /\ tabs[t].reading
    /\ tabs' = [tabs EXCEPT ![t].reading = FALSE, ![t].pins = pinSet.pins]
    /\ UNCHANGED <<ledgerVars, pinSet, worldVars, reader>>

\* An unchanged set keeps its revision.
StorePins(t, pins) ==
    /\ pins # pinSet.pins => pinSet.revision < MaxPinRevision
    /\ LET next == [revision |-> pinSet.revision + (IF pins = pinSet.pins THEN 0 ELSE 1),
                    pins |-> pins]
       IN  /\ pinSet' = next
           /\ tabs' = [tabs EXCEPT ![t] = [reading |-> FALSE, revision |-> next.revision,
                                           pins |-> next.pins]]
    /\ UNCHANGED <<ledgerVars, worldVars, reader>>

\* A bug for Mutate: the revision the tab sends is not compared.
MutateStale(t, pins) == ~tabs[t].reading /\ StorePins(t, pins)

\* A stale revision conflicts.
Mutate(t, pins) ==
    ~tabs[t].reading /\ tabs[t].revision = pinSet.revision /\ StorePins(t, pins)

put_timeline_pin(t) == \E s \in workspace.subjects : Mutate(t, pinSet.pins \cup {s})

delete_timeline_pin(t) == \E s \in workspace.subjects : Mutate(t, pinSet.pins \ {s})

-----------------------------------------------------------------------------
\* Reading.  The cursor the reader holds binds what selects evidence: the
\* query without its presentation, the grants and, for pinned reads, the
\* revision of the pin set.

NoStrip == [buckets |-> <<>>, activity |-> <<>>, kinds |-> <<>>, later |-> {}]

NoReader == [pc |-> "closed", resuming |-> FALSE, query |-> {}, revision |-> 0, pins |-> {},
             grants |-> {}, bounds |-> [after |-> 0, through |-> 0], token |-> {}, seen |-> {},
             floor |-> 1, start |-> 0, strip |-> NoStrip]

replay_identity(q, revision) ==
    [query |-> [q EXCEPT !.sort = "any"], pin_set_revision |-> IF q.pinned_only THEN {revision} ELSE {}]

as_filter_scope(rd) ==
    [authorization |-> rd.grants,
     identity |-> {replay_identity(q, rd.revision) : q \in rd.query}]

TimelineEvidencePredicate(rd) ==
    [query |-> CHOOSE q \in rd.query : TRUE, grants |-> CHOOSE g \in rd.grants : TRUE,
     pins |-> rd.pins]

\* A request: a new snapshot, or the continuation of the last one.
OpenRead(resuming) ==
    /\ reader.pc \in {"closed", "open"}
    /\ resuming => reader.token # {}
    /\ \E q \in workspace.queries :
          reader' = [reader EXCEPT !.resuming = resuming, !.query = {q}, !.grants = {granted},
                                   !.revision = IF q.pinned_only THEN pinSet.revision ELSE 0,
                                   !.pins = {},
                                   !.pc = IF q.pinned_only THEN "pins" ELSE "bounds"]
    /\ UNCHANGED <<ledgerVars, pinVars, worldVars>>

ResolvePins ==
    /\ reader.pc = "pins"
    /\ reader' = [reader EXCEPT !.pins = pinSet.pins, !.pc = "bounds"]
    /\ UNCHANGED <<ledgerVars, pinVars, worldVars>>

\* Decoding fails for an expired token and for any other binding.
decode(expired) ==
    ~expired /\ \A t \in reader.token : t.scope = as_filter_scope(reader)

cursor_state ==
    /\ reader.pc = "bounds"
    /\ \E expired \in BOOLEAN :
          LET position == CHOOSE n \in {t.position : t \in reader.token} : TRUE
              after == IF reader.resuming THEN position ELSE ledgerCursor.retained - 1
          IN  reader' = IF \/ reader.resuming /\ ~decode(expired)
                           \/ after < ledgerCursor.retained - 1
                        THEN NoReader
                        ELSE [reader EXCEPT !.pc = "rows",
                                            !.bounds = [after |-> after, through |-> ledgerCursor.last]]
    /\ UNCHANGED <<ledgerVars, pinVars, worldVars>>

timeline_events_statement(phase) ==
    {r \in ledgerRows : /\ reader.bounds.after < r.sequence /\ r.sequence <= reader.bounds.through
                        /\ timeline_evidence_sql_predicate(r, TimelineEvidencePredicate(reader), phase)}

Sequences(rows) == {r.sequence : r \in rows}

Newest(sequences) == {n \in sequences : Cardinality({k \in sequences : k > n}) < Limit}
Oldest(sequences) == {n \in sequences : Cardinality({k \in sequences : k < n}) < Limit}

encode(rd, position) == {[scope |-> as_filter_scope(rd), position |-> position]}

\* The newest records within the limit; an older one is dropped and reported.
snapshot_timeline_events ==
    /\ reader.pc = "rows" /\ ~reader.resuming
    /\ LET found == Sequences(timeline_events_statement("snapshot"))
           records == Newest(found)
           truncated == Cardinality(found) > Limit
       IN  reader' = [reader EXCEPT !.pc = "open", !.seen = records, !.strip = NoStrip,
                                    !.floor = IF truncated THEN Min(records) ELSE reader.bounds.after + 1,
                                    !.start = reader.bounds.through,
                                    !.bounds = NoReader.bounds,
                                    !.token = encode(reader, reader.bounds.through)]
    /\ UNCHANGED <<ledgerVars, pinVars, worldVars>>

\* The oldest records within the limit; a full page ends at its last record.
replay_timeline_events ==
    /\ reader.pc = "rows" /\ reader.resuming
    /\ LET found == Sequences(timeline_events_statement("stream"))
           records == Oldest(found)
           position == IF Cardinality(records) = Limit THEN Max(records) ELSE reader.bounds.through
       IN  reader' = [reader EXCEPT !.pc = "open", !.seen = @ \cup records, !.strip = NoStrip,
                                    !.bounds = NoReader.bounds,
                                    !.token = encode(reader, position)]
    /\ UNCHANGED <<ledgerVars, pinVars, worldVars>>

-----------------------------------------------------------------------------
\* The strip above the list: four statements of one transaction.

\* keyed: the rows, each with a key it counts for.
Counts(keyed) == [k \in {p[1] : p \in keyed} |-> Cardinality({p \in keyed : p[1] = k})]

Selected(query, phase) ==
    {r \in ledgerRows : timeline_evidence_sql_predicate(
        r, [TimelineEvidencePredicate(reader) EXCEPT !.query = query], phase)}

timeline_overview_bucket_index(r, q) == r.occurred_at - q.from

\* Events and problems per bucket.
timeline_overview_buckets(q) ==
    LET Bucket(name, rows) == {<<<<name, timeline_overview_bucket_index(r, q)>>, r>> : r \in rows}
    IN  Counts(Bucket("events", Selected(q, "snapshot"))
               \cup Bucket("problems", {r \in Selected(q, "snapshot") :
                                           r.activity \in {"warning", "unhealthy"}}))

\* A facet axis drops its own filter only.
timeline_overview_activity_facets(q) ==
    Counts({<<r.activity, r>> : r \in Selected([q EXCEPT !.activity = {}], "snapshot")})

timeline_overview_kind_facets(q) ==
    Counts(UNION {timeline_resource_kind_sql(r) \X {r} : r \in Selected([q EXCEPT !.kinds = {}], "snapshot")})

\* Facts after a frozen window, counted as a live stream that begins at its end.
after_frozen_window(q) ==
    IF q.mode # "frozen" THEN {}
    ELSE {Cardinality(Selected([q EXCEPT !.from = q.to, !.to = q.to + 1, !.mode = "live"], "stream"))}

Statement(pc, next, strip) ==
    /\ reader.pc = pc
    /\ reader' = [reader EXCEPT !.strip = strip, !.pc = next]
    /\ UNCHANGED <<ledgerVars, pinVars, worldVars>>

timeline_overview ==
    \E q \in reader.query :
        \/ /\ reader.strip = NoStrip
           /\ Statement("open", "activity", [NoStrip EXCEPT !.buckets = timeline_overview_buckets(q)])
        \/ Statement("activity", "kinds",
                     [reader.strip EXCEPT !.activity = timeline_overview_activity_facets(q)])
        \/ Statement("kinds", "later",
                     [reader.strip EXCEPT !.kinds = timeline_overview_kind_facets(q)])
        \/ Statement("later", "open", [reader.strip EXCEPT !.later = after_frozen_window(q)])

-----------------------------------------------------------------------------
ChangeGrants ==
    /\ regrants < MaxRegrants
    /\ granted' \in workspace.access \ {granted} /\ regrants' = regrants + 1
    /\ UNCHANGED <<ledgerVars, pinVars, workspace, reader, ledgerTime>>

Tick ==
    /\ ledgerTime < workspace.until
    /\ ledgerTime' = ledgerTime + 1
    /\ UNCHANGED <<ledgerVars, pinVars, workspace, granted, regrants, reader>>

TimelineInit ==
    /\ workspace \in Workspaces /\ granted \in workspace.access /\ regrants = 0
    /\ ledgerCursor = [last |-> 0, retained |-> 1] /\ ledgerRows = {} /\ announced = <<>>
    /\ appending = [w \in Appender |-> NoAppend]
    /\ pinSet = [revision |-> 0, pins |-> {}]
    /\ tabs = [t \in workspace.tabs |-> [reading |-> FALSE, revision |-> 0, pins |-> {}]]
    /\ reader = NoReader /\ ledgerTime = 0

TimelineNext ==
    \/ \E w \in Appender : append_timeline_events(w) \/ fanout_committed_timeline_append(w)
                         \/ RollBackAppend(w)
    \/ advance_timeline_retention
    \/ \E t \in workspace.tabs : read_pin_revision(t) \/ read_timeline_pin_set(t)
                      \/ put_timeline_pin(t) \/ delete_timeline_pin(t)
    \/ \E resuming \in BOOLEAN : OpenRead(resuming)
    \/ ResolvePins \/ cursor_state \/ snapshot_timeline_events \/ replay_timeline_events
    \/ timeline_overview \/ ChangeGrants \/ Tick

TimelineSpec == TimelineInit /\ [][TimelineNext]_timelineVars

-----------------------------------------------------------------------------
(* The ledger behind every cursor is exact at every commit, whatever units *)
(* of work overlap, repeat each other's facts or roll back: its numbers    *)
(* are 1 to last_sequence without a hole, a source key is stored once, and *)
(* what was announced as inserted is what is stored, once each (the count  *)
(* timeline_diagnostics reports without counting).                         *)
LedgerIsExact ==
    /\ Sequences(ledgerRows) = 1..timeline_diagnostics.event_count
    /\ Cardinality(ledgerRows) = timeline_diagnostics.event_count
    /\ Len(announced) = Cardinality({a.source_key : a \in Range(announced)})
    /\ {a.source_key : a \in Range(announced)} = {r.source_key : r \in ledgerRows}
    /\ Cardinality({r.source_key : r \in ledgerRows}) = Cardinality(ledgerRows)

StoredAt(r) == CHOOSE t \in {a.at : a \in {b \in Range(announced) : b.source_key = r.source_key}} : TRUE

(* A snapshot and the pages resumed from its cursor give the reader every  *)
(* fact its query selects up to its position, and no other, judged by the  *)
(* Python guard and not by the SQL that read them: no fact committed       *)
(* between two reads is skipped, and a cursor never carries on under other *)
(* filters, grants or pins.  Left out: what a truncated snapshot reported  *)
(* as dropped, a fact dated in the future when it was stored, and a page   *)
(* whose pins were read after the revision it is bound to had passed (the  *)
(* next resume is refused).  The strip counts at least the facts listed.   *)
ReplayIsComplete ==
    /\ reader.token # {} /\ reader.pc \in {"open", "activity", "kinds", "later"}
    /\ \A q \in reader.query : q.pinned_only => reader.revision = pinSet.revision
    =>
        LET p == TimelineEvidencePredicate(reader)
            position == (CHOOSE t \in reader.token : TRUE).position
            Selects(r) == IF r.sequence <= reader.start THEN matches_snapshot(event_from_row(r), p)
                          ELSE matches_stream(event_from_row(r), p, ledgerTime)
            listed == {r \in ledgerRows : r.sequence \in reader.seen /\ r.sequence <= reader.start}
            Sum(field) == FoldSet(LAMBDA k, n : n + reader.strip.buckets[k], 0,
                                  {k \in DOMAIN reader.strip.buckets : k[1] = field})
        IN  /\ \A r \in ledgerRows :
                  /\ r.sequence \in reader.seen => Selects(r)
                  /\ /\ reader.floor <= r.sequence /\ r.sequence <= position
                     /\ r.occurred_at <= StoredAt(r) \/ r.sequence <= reader.start
                     /\ Selects(r)
                     => r.sequence \in reader.seen
            /\ reader.strip # NoStrip => Cardinality(listed) <= Sum("events")
            /\ Sum("problems") <= Sum("events")

(* A tab changes the pin set only from the set it shows: two tabs, a read  *)
(* torn between the revision and the pins, or a repeated request never     *)
(* make a mutation apply to pins the tab has not seen.                     *)
PinMutationIsCurrent ==
    [][pinSet' # pinSet => \E t \in workspace.tabs : tabs[t].pins = pinSet.pins /\ tabs'[t].pins = pinSet'.pins]_timelineVars

(* The ledger and what is read of it tell the same story: exact as stored, *)
(* complete as replayed (append_timeline_events and replay_timeline_events *)
(* together).                                                              *)
TimelineIsFaithful == LedgerIsExact /\ ReplayIsComplete
=============================================================================
