----------------------------- MODULE InventoryLedger -----------------------------
(***************************************************************************)
(* Inventory snapshots, the filter projection and the timeline ledger.     *)
(* An agent's cut is saved in one transaction: it replaces the rows of its *)
(* cluster, derives timeline facts from the difference, advances the       *)
(* temporal versions of the filter projection under a revision of the      *)
(* whole workspace, and appends the facts to the ledger.  Readers page     *)
(* through the versions at a pinned revision while cuts are being saved.   *)
(* A cut without authority over a scope never proves an absence there.     *)
(***************************************************************************)
EXTENDS Integers, Sequences, FiniteSets, FiniteSetsExt, SequencesExt, Functions, TLC

CONSTANTS
    Cluster,        \* clusters of one workspace, numbered: pages are sorted by them
    Resource,       \* inventory keys, numbered
    PodOf,          \* namespace of the pods among them
    Synthetic,      \* health and usage rows and Event rows: no timeline facts
    Payload,        \* bound: cuts an agent may send
    MaxCuts         \* bound: cuts saved

ASSUME InventoryAssumption ==
    /\ Cluster \cup Resource \subseteq Nat
    /\ DOMAIN PodOf \cup Synthetic \subseteq Resource
    /\ MaxCuts \in Nat \ {0}

VARIABLES
    latest,     \* per cluster, the greatest collected_at of its snapshots
    rows,       \* cluster_inventory_resources: per cluster and key, content and deleted_at
    facts,      \* per cluster, the latest authoritative Event fact batch
    versions,   \* inventory_resource_versions
    filterRevision, \* identity sequence of inventory_filter_revisions
    revisions,  \* inventory_filter_revisions, committed
    ledger,     \* timeline_ledger_events, in sequence order
    tx,         \* transactions in progress, by the cluster whose lock they hold
    cuts,       \* cuts saved so far
    walk        \* a reader's page walk, if any

inventoryVars == <<latest, rows, facts, versions, filterRevision, revisions, ledger, tx, cuts, walk>>

InventoryInit ==
    /\ latest = [c \in Cluster |-> 0]
    /\ rows = [c \in Cluster |-> << >>]
    /\ facts = [c \in Cluster |-> 0]
    /\ versions = {} /\ filterRevision = 0 /\ revisions = {}
    /\ ledger = << >> /\ tx = << >> /\ cuts = 0 /\ walk = {}

-----------------------------------------------------------------------------
(***************************************************************************)
(* What a payload proves.                                                  *)
(***************************************************************************)

\* The producer's report of its limits leaves no doubt about the pod list.
pod_list_limited(p) == p.limits \in {"pods", "untyped"}

\* One producer entry grants a deletion only if it is well typed and clean.
proof_entry(e) == e = "proved"

pod_coverage(p) ==
    IF pod_list_limited(p) THEN {} ELSE {n \in DOMAIN p.coverage : proof_entry(p.coverage[n])}

inventory_deletion_scopes(p) == pod_coverage(p)

inventory_row_in_deletion_scopes(k, scopes) == k \in DOMAIN PodOf /\ PodOf[k] \in scopes

\* Agent evidence with no row, no Event capture and no coverage entry is not recorded.
evidence_inventory_payload(p) ==
    p.replace \/ DOMAIN p.seen # {} \/ p.capture.present \/ (~pod_list_limited(p) /\ DOMAIN p.coverage # {})

\* replace, resources_complete and nothing truncated.
resources_complete(p) == p.replace /\ p.limits \notin {"pods", "other"}

-----------------------------------------------------------------------------
(***************************************************************************)
(* Timeline facts of one cut.                                              *)
(***************************************************************************)

Live(c) == {k \in DOMAIN rows[c] : ~rows[c][k].deleted}
ByKey(S) == SetToSortSeq(S, <)

inventory_resource_changed(old, new) == old # new

Change(c, kind, k, content) == [cluster |-> c, type |-> kind, key |-> k, content |-> content]

inventory_timeline_events(c, p) ==
    LET before == Live(c) \ Synthetic
        after == DOMAIN p.seen \ Synthetic
        changed == {k \in after : k \in before => inventory_resource_changed(rows[c][k].content, p.seen[k])}
        gone == {k \in before \ after : resources_complete(p)
                    \/ inventory_row_in_deletion_scopes(k, inventory_deletion_scopes(p))}
        seen(k) == Change(c, IF k \in before THEN "update" ELSE "add", k, p.seen[k])
        lost(k) == Change(c, "delete", k, rows[c][k].content)
        upserts == ByKey(changed)
        deletes == ByKey(gone)
    IN  [i \in DOMAIN upserts |-> seen(upserts[i])] \o [i \in DOMAIN deletes |-> lost(deletes[i])]

\* An Event enters when a fresh, authoritative capture shows it advanced.
kubernetes_event_fact_timeline_events(c, p) ==
    IF p.capture.authoritative /\ p.capture.fresh /\ p.capture.count > facts[c]
    THEN << Change(c, "k8s_event", 0, [hashed |-> p.capture.count, raw |-> 0]) >> ELSE << >>

-----------------------------------------------------------------------------
(***************************************************************************)
(* Saving a cut.                                                           *)
(***************************************************************************)

\* The content hash leaves annotations and the raw object out.
content_hash(content) == content.hashed

Active(c) == {v \in versions : v.cluster = c /\ v.to = 0}

missing_projection_resource_delete_safe(p, k) ==
    resources_complete(p) \/ inventory_row_in_deletion_scopes(k, inventory_deletion_scopes(p))

\* Versions a cut closes and keys it opens a version of.
compute_projection_diff(c, p) ==
    LET same(v) == v.hash = content_hash(p.seen[v.key])
        kept == {v.key : v \in {a \in Active(c) : a.key \in DOMAIN p.seen /\ same(a)}}
    IN  [close |-> {v \in Active(c) : IF v.key \in DOMAIN p.seen THEN ~same(v)
                                      ELSE missing_projection_resource_delete_safe(p, v.key)},
         open |-> DOMAIN p.seen \ kept,
         known |-> {v.key : v \in Active(c)}]

\* The advisory lock of a cluster is held until the transaction ends.
ClusterLocked(c) == c \in DOMAIN tx

\* save_inventory_snapshot_mutation up to the projection's workspace lock.
save_inventory_snapshot_mutation(c, p) ==
    /\ ~ClusterLocked(c)
    /\ cuts + Cardinality(DOMAIN tx) < MaxCuts
    /\ evidence_inventory_payload(p)
    /\ p.at >= latest[c]
    /\ tx' = tx @@ (c :> [payload |-> p, before |-> Live(c), revision |-> 0,
                          events |-> inventory_timeline_events(c, p)
                                     \o kubernetes_event_fact_timeline_events(c, p),
                          diff |-> compute_projection_diff(c, p)])
    /\ UNCHANGED <<latest, rows, facts, versions, filterRevision, revisions, ledger, cuts, walk>>

\* An older cut leaves an ignored_stale snapshot and nothing else.
ignored_stale(c, p) ==
    /\ ~ClusterLocked(c) /\ cuts + Cardinality(DOMAIN tx) < MaxCuts
    /\ evidence_inventory_payload(p)
    /\ p.at < latest[c]
    /\ cuts' = cuts + 1
    /\ UNCHANGED <<latest, rows, facts, versions, filterRevision, revisions, ledger, tx, walk>>

\* A bug for WorkspaceLocked: the advisory lock of the workspace is not taken.
WorkspaceNeverLocked == FALSE

\* The workspace lock is held from the revision's allocation until the transaction ends.
WorkspaceLocked == \E c \in DOMAIN tx : tx[c].revision # 0

sync_inventory_filter_projection(c) ==
    /\ c \in DOMAIN tx /\ tx[c].revision = 0 /\ ~WorkspaceLocked
    /\ filterRevision' = filterRevision + 1
    /\ tx' = [tx EXCEPT ![c].revision = filterRevision + 1]
    /\ UNCHANGED <<latest, rows, facts, versions, revisions, ledger, cuts, walk>>

write_projection_versions(c, t) ==
    {IF v \in t.diff.close THEN [v EXCEPT !.to = t.revision] ELSE v : v \in versions}
    \cup {[cluster |-> c, key |-> k, hash |-> content_hash(t.payload.seen[k]),
           from |-> t.revision, to |-> 0] : k \in t.diff.open}

upsert_resources(c, t) ==
    LET p == t.payload
        scopes == inventory_deletion_scopes(p)
        deleted == {k \in t.before \ DOMAIN p.seen :
                      resources_complete(p) \/ inventory_row_in_deletion_scopes(k, scopes)}
        row(k) == IF k \in DOMAIN p.seen THEN [content |-> p.seen[k], deleted |-> FALSE]
                  ELSE [rows[c][k] EXCEPT !.deleted = @ \/ k \in deleted]
    IN  [k \in DOMAIN rows[c] \cup DOMAIN p.seen |-> row(k)]

\* Every inventory fact needs a version to point at, or the whole cut is refused.
correlate_inventory_timeline_events(t) ==
    \A e \in ToSet(t.events) : e.type = "k8s_event" \/ e.key \in t.diff.known \cup t.diff.open

\* The source key of an inventory fact names its snapshot; an Event fact repeats its own.
append_snapshot_events(events) ==
    ledger \o SelectSeq(events, LAMBDA e : e.type # "k8s_event" \/ e \notin ToSet(ledger))

commit_snapshot(c) ==
    /\ c \in DOMAIN tx /\ tx[c].revision # 0
    /\ LET t == tx[c] IN
        /\ correlate_inventory_timeline_events(t)
        /\ latest' = [latest EXCEPT ![c] = t.payload.at]
        /\ rows' = [rows EXCEPT ![c] = upsert_resources(c, t)]
        /\ facts' = IF t.payload.capture.authoritative
                    THEN [facts EXCEPT ![c] = t.payload.capture.count] ELSE facts
        /\ versions' = write_projection_versions(c, t)
        /\ revisions' = revisions \cup {[id |-> t.revision, cluster |-> c]}
        /\ ledger' = append_snapshot_events(t.events)
    /\ tx' = Restrict(tx, DOMAIN tx \ {c})
    /\ cuts' = cuts + 1
    /\ UNCHANGED <<filterRevision, walk>>

\* Any failure rolls back everything but the identity sequence.
rollback_snapshot(c) ==
    /\ c \in DOMAIN tx
    /\ tx' = Restrict(tx, DOMAIN tx \ {c})
    /\ cuts' = cuts + 1
    /\ UNCHANGED <<latest, rows, facts, versions, filterRevision, revisions, ledger, walk>>

-----------------------------------------------------------------------------
(***************************************************************************)
(* Reading pages at one revision.                                          *)
(***************************************************************************)

\* What the live tables hold: the reference for a walk that starts now.
Inventory(deleted) ==
    {<<c, k, content_hash(rows[c][k].content)>> : <<c, k>> \in
        {ck \in Cluster \X Resource : ck[2] \in DOMAIN rows[ck[1]]
                                      /\ (deleted \/ ~rows[ck[1]][ck[2]].deleted)}}

\* aggregate_snapshot_contexts: the newest of the latest revisions of the clusters.
filter_snapshot_context(deleted) ==
    /\ walk = {} /\ revisions # {}
    /\ walk' = {[revision |-> Max({r.id : r \in revisions}), position |-> <<0, 0>>, got |-> {},
                 pages |-> 0, deleted |-> deleted, more |-> TRUE, cut |-> Inventory(deleted)]}
    /\ UNCHANGED <<latest, rows, facts, versions, filterRevision, revisions, ledger, tx, cuts>>

inventory_versions_at_revision(revision_id, deleted) ==
    LET born == {v \in versions : v.from <= revision_id}
        newest(v) == \A u \in born : u.cluster = v.cluster /\ u.key = v.key => u.from <= v.from
    IN  IF deleted THEN {v \in born : newest(v)}
        ELSE {v \in born : v.to = 0 \/ v.to > revision_id}

sort_tuple(v) == <<v.cluster, v.key>>
After(a, b) == a[1] > b[1] \/ (a[1] = b[1] /\ a[2] > b[2])

\* One page: one row, one row ahead to see whether there are more.
list_filtered_resources ==
    \E r \in walk :
        /\ r.more
        /\ LET left == {v \in inventory_versions_at_revision(r.revision, r.deleted) :
                          After(sort_tuple(v), r.position)}
               page == {v \in left : \A u \in left : ~After(sort_tuple(v), sort_tuple(u))}
           IN  walk' = {[r EXCEPT !.got = @ \cup {<<v.cluster, v.key, v.hash>> : v \in page},
                                  !.pages = @ + Cardinality(page),
                                  !.position = IF page = {} THEN @
                                               ELSE sort_tuple(CHOOSE v \in page : TRUE),
                                  !.more = left # page]}
        /\ UNCHANGED <<latest, rows, facts, versions, filterRevision, revisions, ledger, tx, cuts>>

InventoryNext ==
    \/ \E c \in Cluster, p \in Payload : save_inventory_snapshot_mutation(c, p)
    \/ \E c \in Cluster, p \in Payload : ignored_stale(c, p)
    \/ \E c \in Cluster : sync_inventory_filter_projection(c)
    \/ \E c \in Cluster : commit_snapshot(c)
    \/ \E c \in Cluster : rollback_snapshot(c)
    \/ \E deleted \in BOOLEAN : filter_snapshot_context(deleted)
    \/ list_filtered_resources

InventorySpec == InventoryInit /\ [][InventoryNext]_inventoryVars

-----------------------------------------------------------------------------
(***************************************************************************)
(* Properties.                                                             *)
(***************************************************************************)

\* What the ledger says of a key: its last inventory fact.
LedgerView(c) ==
    LET of(k) == SelectSeq(ledger, LAMBDA e : e.cluster = c /\ e.key = k /\ e.type # "k8s_event")
    IN  {<<k, Last(of(k)).content>> : k \in {j \in Resource : of(j) # << >> /\ Last(of(j)).type # "delete"}}

\* Replaying a cluster's ledger gives exactly its live timeline resources, and
\* an add is never recorded for a key the ledger already shows (nor an update
\* or a delete for one it does not): save_inventory_snapshot_mutation derives
\* facts from what it read under the cluster lock, whatever the other cuts do.
LedgerReplaysInventory ==
    /\ \A c \in Cluster : LedgerView(c) = {<<k, rows[c][k].content>> : k \in Live(c) \ Synthetic}
    /\ \A i \in DOMAIN ledger : ledger[i].type # "k8s_event" =>
         LET before == SelectSeq(SubSeq(ledger, 1, i - 1), LAMBDA e : e.type # "k8s_event"
                            /\ e.cluster = ledger[i].cluster /\ e.key = ledger[i].key)
             shown == before # << >> /\ Last(before).type # "delete"
         IN  ledger[i].type = "add" <=> ~shown

\* A page walk pinned at a revision returns every resource that was in the
\* inventory when it was pinned, once, and no other, however many cuts commit
\* between two pages: sync_inventory_filter_projection allocates the revision
\* under the workspace lock, so revisions become visible in their order.
PageWalkIsOneCut ==
    \A r \in walk :
        /\ r.got \subseteq r.cut
        /\ Cardinality(r.got) = r.pages
        /\ r.more \/ r.got = r.cut

\* Both derived stores agree with the inventory they were derived from: the
\* ledger and the versions behind a page walk
\* (save_inventory_snapshot_mutation writes all three).
InventoryIsReplayable == LedgerReplaysInventory /\ PageWalkIsOneCut
=============================================================================
