----------------------------- MODULE IncidentHistory -----------------------------
(***************************************************************************)
(* What an incident's history says it did not see.  Accepted snapshots of  *)
(* one cluster carry a proof of the resource list and an Event capture     *)
(* that is a gap, a recovery, or neither.  The history of a window reads   *)
(* the snapshots through bounded SQL probes and reports gaps, partial cuts *)
(* and a completeness status.                                              *)
(***************************************************************************)
EXTENDS Integers, Sequences, FiniteSets, FiniteSetsExt, SequencesExt

CONSTANTS
    MaxGap,         \* OBSERVATION_MAX_GAP_MS
    ReadLimit,      \* limit of list_inventory_snapshot_observations
    MaxTime,        \* bound: clock
    MaxSnapshots    \* bound: accepted snapshots

ASSUME HistoryAssumption == {MaxGap, ReadLimit, MaxTime, MaxSnapshots} \subseteq Nat \ {0}

VARIABLES
    snapshots,  \* accepted snapshots in the order of their creation
    time,
    reading     \* requests between their reads: [window, now, captured]

historyVars == <<snapshots, time, reading>>

HistoryInit == snapshots = << >> /\ time = 1 /\ reading = {}

-----------------------------------------------------------------------------
(***************************************************************************)
(* Gaps of the Event capture.                                              *)
(***************************************************************************)

HistoryWindow == {<<from, to>> \in (0 .. MaxTime) \X (1 .. MaxTime + 1) : from < to}

intersects_window(from, to, w) == from < w[2] /\ w[1] < to

\* The projector's state: the time the open gap was first seen at, 0 for none.
project_step(w, acc, s) ==
    IF s.capture = "gap"
    THEN [acc EXCEPT !.opened = IF @ = 0 THEN s.capturedAt ELSE @]
    ELSE IF s.capture = "unproven" \/ acc.opened = 0 \/ s.capturedAt <= acc.opened THEN acc
    ELSE [opened |-> 0,
          gaps |-> acc.gaps \cup {<<t, s.capturedAt>> : t \in
                     {o \in {acc.opened} : intersects_window(o, s.capturedAt, w)}}]

project_ordered_capture_coverage(w, rows) ==
    FoldLeft(LAMBDA acc, s : project_step(w, acc, s), [opened |-> 0, gaps |-> {}], rows).gaps

InOrder(rows) == SortSeq(rows, LAMBDA a, b : a.capturedAt < b.capturedAt)

first_open_gap(open) == Min(open)

\* A bug for timeline_coverage_statement: what was open before is forgotten.
timeline_window_rows(w) ==
    SelectSeq(InOrder(snapshots), LAMBDA s : w[1] <= s.capturedAt /\ s.capturedAt < w[2])

\* timeline_coverage_statement: before the window, only the first gap after the
\* latest recovery; then the rows of the window.
timeline_coverage_statement(w) ==
    LET before == SelectSeq(InOrder(snapshots), LAMBDA s : s.capturedAt < w[1])
        recoveries == {i \in DOMAIN before : before[i].capture = "recovery"}
        latest_recovery == IF recoveries = {} THEN 0 ELSE Max(recoveries)
        open == {i \in DOMAIN before : before[i].capture = "gap" /\ i > latest_recovery}
        baseline == IF open = {} THEN << >> ELSE << before[first_open_gap(open)] >>
    IN  baseline \o SelectSeq(InOrder(snapshots), LAMBDA s : w[1] <= s.capturedAt /\ s.capturedAt < w[2])

snapshot_timeline_coverage(w) ==
    project_ordered_capture_coverage(w, timeline_coverage_statement(w))

\* The same projector over every snapshot before the window's end.
project_kubernetes_event_capture_coverage(w) ==
    project_ordered_capture_coverage(w, SelectSeq(InOrder(snapshots), LAMBDA s : s.capturedAt < w[2]))

-----------------------------------------------------------------------------
(***************************************************************************)
(* Completeness.                                                           *)
(***************************************************************************)

effective_window(w) == IF w[2] > time /\ time > w[1] THEN <<w[1], time>> ELSE w

list_inventory_snapshot_observations(w) ==
    LET cuts == SelectSeq(snapshots, LAMBDA s : w[1] - MaxGap <= s.collectedAt /\ s.collectedAt < w[2])
    IN  SubSeq(cuts, Max({1, Len(cuts) - ReadLimit + 1}), Len(cuts))

observation_gaps(points, from, to) ==
    LET n == Len(points)
        head == {<<from, points[1]>> : x \in {y \in {0} : points[1] - from > MaxGap}}
        inner == {<<points[i], points[i + 1]>> : i \in {j \in 1 .. n - 1 : points[j + 1] - points[j] > MaxGap}}
        tail == {<<points[n], to>> : x \in {y \in {0} : to - points[n] > MaxGap}}
    IN  head \cup inner \cup tail

partial_cut_intervals(obs, to, proven) ==
    LET end(i) == IF i < Len(obs) THEN obs[i + 1].collectedAt ELSE to
    IN  {<<obs[i].collectedAt, end(i)>> : i \in
            {j \in DOMAIN obs \ proven : obs[j].collectedAt < end(j)}}

\* grants: the sources the caller may read, of {"inventory", "events"}.
assess_completeness(r, grants, truncated, hasEvents) ==
    LET from == r.window[1]
        to == Min({r.window[2], r.now})
        captured == IF "events" \in grants THEN r.captured ELSE {}
        obs == list_inventory_snapshot_observations(<<from, to>>)
        points == [i \in DOMAIN obs |-> obs[i].collectedAt]
        gaps == observation_gaps(points, from, to)
        partial == partial_cut_intervals(obs, to, {i \in DOMAIN obs : obs[i].proven})
                   \cup (IF "events" \in grants
                         THEN partial_cut_intervals(obs, to, {i \in DOMAIN obs : obs[i].capture = "recovery"})
                         ELSE {})
        always == (IF grants # {"inventory", "events"} THEN {"source_unavailable"} ELSE {})
                  \cup (IF truncated THEN {"truncated"} ELSE {})
                  \cup (IF captured # {} THEN {"collection_gap"} ELSE {})
        finish(reasons, coverage) ==
            [status |-> IF reasons = {} THEN "complete" ELSE "partial", reasons |-> reasons,
             coverage |-> IF reasons = {} THEN {} ELSE coverage]
    IN  IF "inventory" \notin grants THEN finish(always, captured)
        ELSE IF obs = << >> \/ to <= from
        THEN IF hasEvents
             THEN finish(always \cup {"collection_gap"},
                         captured \cup {<<f, to>> : f \in {x \in {from} : x < to}})
             ELSE [status |-> "unavailable", coverage |-> {},
                   reasons |-> (always \ {"truncated"}) \cup {"no_observation"}]
        ELSE finish(always \cup (IF gaps # {} THEN {"collection_gap"} ELSE {})
                           \cup (IF partial # {} THEN {"partial_scope"} ELSE {}),
                    captured \cup gaps \cup partial)

-----------------------------------------------------------------------------
(***************************************************************************)
(* Steps.                                                                  *)
(***************************************************************************)

\* The capture of a snapshot, as _capture_observation classifies it.
Capture == {"gap", "recovery", "unproven"}

\* An older cut than the newest is stored as ignored_stale and read by nobody.
\* Every capture has a time of its own, the collector's clock at its listing.
AcceptSnapshot(capture, proven, collectedAt, capturedAt) ==
    /\ Len(snapshots) < MaxSnapshots
    /\ 0 < capturedAt /\ capturedAt <= collectedAt
    /\ \A i \in DOMAIN snapshots : snapshots[i].capturedAt # capturedAt
    /\ snapshots # << >> => Last(snapshots).collectedAt <= collectedAt
    /\ snapshots' = Append(snapshots, [capture |-> capture, proven |-> proven,
                                       capturedAt |-> capturedAt, collectedAt |-> collectedAt])
    /\ UNCHANGED <<time, reading>>

Pass == time < MaxTime /\ time' = time + 1 /\ UNCHANGED <<snapshots, reading>>

\* get_incident_history: the gaps are read in one transaction and the
\* observations in a later one; the window is clamped before both.
get_incident_history(w) ==
    /\ reading = {}
    /\ reading' = {[window |-> effective_window(w), now |-> time,
                    captured |-> snapshot_timeline_coverage(effective_window(w))]}
    /\ UNCHANGED <<snapshots, time>>

HistoryNext ==
    \/ \E capture \in Capture, proven \in BOOLEAN, collectedAt, capturedAt \in {time - 1, time} :
          AcceptSnapshot(capture, proven, collectedAt, capturedAt)
    \/ \E w \in HistoryWindow : get_incident_history(w)
    \/ Pass

HistorySpec == HistoryInit /\ [][HistoryNext]_historyVars

-----------------------------------------------------------------------------
(***************************************************************************)
(* Properties.                                                             *)
(***************************************************************************)

\* The cuts in force at an instant.
InForce(t) == {s \in ToSet(snapshots) : s.collectedAt <= t
                  /\ \A u \in ToSet(snapshots) : u.collectedAt <= t => u.collectedAt <= s.collectedAt}

Seen(t) == \E s \in ToSet(snapshots) : t - MaxGap <= s.collectedAt /\ s.collectedAt <= t + MaxGap

\* The bounded read finds exactly the capture gaps that the whole history of
\* snapshots proves for the window; and an answer is called complete, although
\* a snapshot may arrive between its two reads, only if no instant of the
\* window that has happened is far from every cut, or under a cut that lacks
\* either proof (assess_completeness: absence of evidence is never health).
HistoryIsHonest ==
    \A r \in reading :
        /\ snapshot_timeline_coverage(r.window) = project_kubernetes_event_capture_coverage(r.window)
        /\ \A grants \in SUBSET {"inventory", "events"}, truncated, hasEvents \in BOOLEAN :
             assess_completeness(r, grants, truncated, hasEvents).status = "complete" =>
                /\ ~truncated /\ grants = {"inventory", "events"} /\ r.window[1] < r.now
                /\ \A t \in r.window[1] .. Min({r.window[2], r.now}) - 1 :
                     /\ Seen(t)
                     /\ InForce(t) # {} => \E s \in InForce(t) : s.proven /\ s.capture = "recovery"
=============================================================================
