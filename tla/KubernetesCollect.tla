-------------------------- MODULE KubernetesCollect --------------------------
(***************************************************************************)
(* The Kubernetes provider of the cluster agent: the queries of one        *)
(* evidence policy run one after the other against the API server, each    *)
(* result is merged into one snapshot, and the snapshot is cut to the      *)
(* payload limits before it is sent.  A result may claim to be the whole   *)
(* of what it lists (a complete Event capture, an exact custom-resource    *)
(* collection, an exact RBAC cut, an exact API catalog, a delete-safe Pod  *)
(* list); the gateway reads a missing object as deleted on the strength of *)
(* such a claim.                                                           *)
(*                                                                         *)
(* A scope is one list of the API server (a namespace, all Events, one     *)
(* RBAC collection, one API root); its objects are numbers in the order    *)
(* the server lists them.  A row is <<i, scope, object>>: the object as    *)
(* the i-th query of the policy returned it.                               *)
(***************************************************************************)
EXTENDS Integers, FiniteSets, Sequences, SequencesExt

CONSTANTS Policies,     \* Sequences of queries [kind, scopes, selector]
          Object,       \* A set of integers
          LabelledObject,     \* Objects a label selector matches
          Nameless,     \* Objects the server lists without a usable identity
          MaxPages,     \* Page limit of a paged query, by kind
          MaxItems,     \* Item limit of a paged query, by kind
          ListLimit,    \* Rows kept of the Pod and custom-resource lists, by kind
          MaxChanges    \* Bound: objects created or deleted while collecting

VARIABLES policy, objects, at, querying, snapshot, sent, listed, changes

collectVars == <<policy, objects, at, querying, snapshot, sent, listed, changes>>

Scopes == UNION {ToSet(q.scopes) : q \in UNION {ToSet(p) : p \in Policies}}
Kind(i) == policy[i].kind
Limited == {"namespace", "dynamic"}

\* Local state of a query: the requests left, the rest of the list a
\* continuation token stands for, pages and items counted, rows, reasons.
NoQuery == [todo |-> <<>>, open |-> FALSE, rest |-> {}, seen |-> 0, pages |-> 0,
           items |-> 0, rows |-> {}, reasons |-> {}]

OpenCall(i) ==
  [NoQuery EXCEPT !.todo = [n \in DOMAIN policy[i].scopes |-> <<policy[i].scopes[n], 0>>]]

CollectInit ==
  /\ policy \in Policies
  /\ objects \in [Scopes -> {Object, Object \ Nameless, {}}]
  /\ at = 1
  /\ querying = OpenCall(1)
  /\ snapshot = [rows |-> {}, whole |-> {}]
  /\ sent = FALSE
  /\ listed = {}
  /\ changes = 0

Scope == Head(querying.todo)[1]
Of(kind) == ~sent /\ at \in DOMAIN policy /\ Kind(at) = kind /\ querying.todo # <<>>
Rows(set) == {<<at, Scope, o>> : o \in set}

-----------------------------------------------------------------------------
\* A list answer of the API server: the first n objects of the list, and
\* whether a continuation token follows.  The list is the one of the moment
\* the first page was read.  A server may answer an earlier token again.
Page(n, again) ==
  LET list == IF querying.open THEN querying.rest ELSE objects[Scope]
      page == {o \in list : Cardinality({p \in list : p < o}) < n}
  IN [items |-> page,
      more  |-> again \/ page # list,
      rest  |-> IF again THEN list ELSE list \ page,
      again |-> again]

Answers == {Page(n, again) : n \in 0..Cardinality(Object), again \in {FALSE}}
             \cup (IF querying.seen > 0 THEN {Page(n, TRUE) : n \in 0..Cardinality(Object)} ELSE {})

\* The first page fixes what the list holds.
ListOpened ==
  listed' = IF querying.open THEN listed ELSE listed \cup Rows(objects[Scope])

\* The next page of the same list.
Continue(page, rows, reasons) ==
  [querying EXCEPT !.open = TRUE, !.rest = page.rest, !.seen = @ + 1, !.pages = @ + 1,
               !.items = @ + Cardinality(page.items), !.rows = rows, !.reasons = reasons]

\* The list is finished; the next request of the query opens another one.
NextScope(rows, reasons, pages, items) ==
  [NoQuery EXCEPT !.todo = Tail(querying.todo), !.rows = rows, !.reasons = reasons,
                 !.pages = pages, !.items = items]

\* The query returns.
Return(rows, reasons) == [NoQuery EXCEPT !.rows = rows, !.reasons = reasons]

Reading == UNCHANGED <<policy, objects, at, snapshot, sent, changes>>

-----------------------------------------------------------------------------
(* The all-namespace Event capture: any failure drops every fact.          *)

event_capture_failure(reason) == querying' = Return({}, {reason})

event_timeline_fact(o) == o \notin Nameless

query_cluster_wide_event_capture ==
  /\ Of("events") /\ Reading
  /\ \/ /\ querying.pages >= MaxPages["events"]
        /\ event_capture_failure("page_limit") /\ UNCHANGED listed
     \/ /\ querying.pages < MaxPages["events"]
        /\ event_capture_failure("request_failed") /\ UNCHANGED listed
     \/ /\ querying.pages < MaxPages["events"]
        /\ ListOpened
        /\ \E page \in Answers :
             LET facts == querying.rows \cup Rows(page.items) IN
             \/ /\ Cardinality(querying.rows) + Cardinality(page.items) > MaxItems["events"]
                /\ event_capture_failure("item_limit")
             \/ /\ Cardinality(querying.rows) + Cardinality(page.items) <= MaxItems["events"]
                /\ \/ /\ \E o \in page.items : ~event_timeline_fact(o)
                      /\ event_capture_failure("invalid_event")
                   \/ /\ \A o \in page.items : event_timeline_fact(o)
                      /\ querying' = IF page.more THEN Continue(page, facts, {})
                                 ELSE Return(facts, {})

-----------------------------------------------------------------------------
(* The RBAC cut: every collection whole, or nothing.  Limits are counted   *)
(* per collection, and a row without identity voids the observation when   *)
(* it is normalized.                                                       *)

query_cluster_access_snapshot ==
  /\ Of("access") /\ Reading
  /\ \/ querying' = Return({}, {"request_failed"}) /\ UNCHANGED listed
     \/ /\ ListOpened
        /\ \E page \in Answers :
             LET rows == querying.rows \cup Rows(page.items) IN
             IF querying.items + Cardinality(page.items) > MaxItems["access"]
             THEN querying' = Return({}, {"item_limit"})
             ELSE IF ~page.more THEN querying' = NextScope(rows, {}, 0, 0)
             ELSE IF querying.pages + 1 = MaxPages["access"] THEN querying' = Return({}, {"page_limit"})
             ELSE querying' = Continue(page, rows, {})

normalize_resource_access(result) ==
  IF \E row \in result.rows : row[3] \in Nameless
  THEN [result EXCEPT !.rows = {}, !.reasons = {"invalid_access_observation"}]
  ELSE result

-----------------------------------------------------------------------------
(* One custom-resource collection over its namespaces: page and item       *)
(* limits are shared by the namespaces; what was read before a failure is  *)
(* kept, with the reason.                                                  *)

canonical_dynamic_resource(o) == o \notin Nameless

\* The rows of a page that fit, in the order listed, and the reasons met.
Accepted(page) ==
  LET fresh == {o \in page.items :
                  canonical_dynamic_resource(o) /\ <<at, Scope, o>> \notin querying.rows}
      room  == MaxItems["dynamic"] - Cardinality(querying.rows)
      fit   == {o \in fresh : Cardinality({p \in fresh : p < o}) < room}
      over  == \E o \in page.items : Cardinality({p \in fit : p < o}) = room
      met   == IF over THEN {o \in page.items : Cardinality({p \in fit : p < o}) < room}
               ELSE page.items
  IN [rows    |-> querying.rows \cup Rows(fit),
      over    |-> over,
      reasons |-> querying.reasons \cup (IF over THEN {"item_limit"} ELSE {})
                    \cup (IF met # fit THEN {"identity_mismatch"} ELSE {})]

query_dynamic_resource_collection ==
  /\ Of("dynamic") /\ Reading
  /\ \/ /\ querying.pages >= MaxPages["dynamic"]
        /\ querying' = Return(querying.rows, querying.reasons \cup {"page_limit"})
        /\ UNCHANGED listed
     \/ /\ querying.pages < MaxPages["dynamic"]
        /\ Cardinality(querying.rows) >= MaxItems["dynamic"]
        /\ querying' = Return(querying.rows, querying.reasons \cup {"item_limit"})
        /\ UNCHANGED listed
     \/ /\ querying.pages < MaxPages["dynamic"]
        /\ Cardinality(querying.rows) < MaxItems["dynamic"]
        /\ \/ /\ querying' = Return(querying.rows, querying.reasons \cup {"request_failed"})
              /\ UNCHANGED listed
           \/ /\ ListOpened
              /\ \E page \in Answers :
                   LET got == Accepted(page) IN
                   querying' = IF ~page.more
                           THEN IF got.over THEN Return(got.rows, got.reasons)
                                ELSE NextScope(got.rows, got.reasons, querying.pages + 1, 0)
                           ELSE IF page.again
                           THEN Return(got.rows, got.reasons \cup {"invalid_response"})
                           ELSE IF Cardinality(got.rows) >= MaxItems["dynamic"]
                           THEN Return(got.rows, got.reasons \cup {"item_limit"})
                           ELSE Continue(page, got.rows, got.reasons)

\* The collection is not read at all unless live discovery resolves it.
resolve_dynamic_resource_descriptor ==
  /\ Of("dynamic") /\ querying.todo = OpenCall(at).todo /\ ~querying.open /\ querying.pages = 0
  /\ querying' = Return({}, {"not_discovered"})
  /\ Reading /\ UNCHANGED listed

-----------------------------------------------------------------------------
(* The API catalog: the versions of an API root, then one document each,   *)
(* at most MaxItems documents together; failures are kept as reasons.  The *)
(* CRD list only classifies what was read: its failure is one more reason. *)

query_cluster_api_discovery ==
  /\ Of("discovery") /\ Reading
  /\ LET request == Head(querying.todo) IN
     \/ /\ request[2] = 0
        /\ LET versions == SetToSortSeq(objects[Scope], <)
               room == IF querying.items > MaxItems["discovery"] THEN 0
                       ELSE MaxItems["discovery"] - querying.items
               docs == SubSeq(versions, 1, IF Len(versions) < room THEN Len(versions) ELSE room)
           IN /\ listed' = listed \cup Rows(objects[Scope])
              /\ querying' = [querying EXCEPT
                   !.todo = [n \in DOMAIN docs |-> <<Scope, docs[n]>>] \o Tail(@),
                   !.items = @ + Len(versions),
                   !.reasons = @ \cup (IF querying.items + Len(versions) > MaxItems["discovery"]
                                       THEN {"catalog_truncated"} ELSE {})]
     \/ /\ request[2] # 0 /\ request[2] \notin Nameless
        /\ querying' = [querying EXCEPT !.todo = Tail(@), !.rows = @ \cup {<<at, Scope, request[2]>>}]
        /\ UNCHANGED listed
     \/ /\ querying' = [querying EXCEPT !.todo = Tail(@), !.reasons = @ \cup {"group_version_failed"}]
        /\ UNCHANGED listed

-----------------------------------------------------------------------------
(* One namespace: the Pod list in one request, then sixteen other lists;   *)
(* a request that raises loses the whole query.                            *)

row_reasons(items) == IF items \cap Nameless # {} THEN {"identity_missing"} ELSE {}

pod_collection_coverage(page, whole) ==
  (IF whole THEN {} ELSE {"malformed_list"})
    \cup (IF page.more THEN {"continuation"} ELSE {})
    \cup row_reasons(page.items)
    \cup (IF policy[at].selector THEN {"label_selector"} ELSE {})

scoped_items(items) == IF policy[at].selector THEN items \cap LabelledObject ELSE items

query ==
  /\ Of("namespace") /\ Reading
  /\ \/ querying' = Return({}, {"query_failed"}) /\ UNCHANGED listed
     \/ /\ ListOpened
        /\ \E page \in {Page(n, FALSE) : n \in 0..Cardinality(Object)}, whole \in BOOLEAN :
             LET read == IF whole THEN page ELSE [page EXCEPT !.items = {}]
             IN querying' = Return(Rows(scoped_items(read.items)),
                               pod_collection_coverage(read, whole))

-----------------------------------------------------------------------------
(* Merging and limiting.                                                   *)

normalize_payload(result) ==
  IF Kind(at) = "access" THEN normalize_resource_access(result) ELSE result

\* Lists grow by a result; the capture, the RBAC cut and the catalog are
\* replaced by a later result of their kind.
merge_snapshot(result) ==
  LET replaced == IF Kind(at) \in Limited THEN {}
                  ELSE {i \in DOMAIN policy : Kind(i) = Kind(at)}
  IN [rows  |-> {row \in snapshot.rows : row[1] \notin replaced} \cup result.rows,
      whole |-> (snapshot.whole \ replaced)
                  \cup (IF result.reasons = {} THEN {at} ELSE {})]

append_result ==
  /\ ~sent /\ at \in DOMAIN policy /\ querying.todo = <<>>
  /\ snapshot' = IF "query_failed" \in querying.reasons THEN snapshot
                 ELSE merge_snapshot(normalize_payload(querying))
  /\ at' = at + 1
  /\ querying' = IF at + 1 \in DOMAIN policy THEN OpenCall(at + 1) ELSE NoQuery
  /\ UNCHANGED <<policy, objects, sent, listed, changes>>

ListOf(kind) == {row \in snapshot.rows : Kind(row[1]) = kind}

\* What the list limit and any number of halvings to the byte budget leave.
limit_payload(kind) ==
  LET n   == Cardinality(ListOf(kind))
      cut == IF n > ListLimit[kind] THEN ListLimit[kind] ELSE n
  IN {kept \in SUBSET ListOf(kind) : Cardinality(kept) \in {cut \div (2 ^ h) : h \in 0..n}}

\* A cut list takes the claim of every query of its kind.
mark_dynamic_resource_payload_limit(kept) ==
  {i \in snapshot.whole : Kind(i) = "dynamic" /\ kept # ListOf("dynamic")}

\* A bug for invalidate_pod_coverage: the limiter cuts Pods and keeps the claim.
keep_pod_coverage(kept) == {}

invalidate_pod_coverage(kept) ==
  {i \in snapshot.whole : Kind(i) = "namespace" /\ kept # ListOf("namespace")}

limit_kubernetes_snapshot ==
  /\ ~sent /\ at \notin DOMAIN policy
  /\ \E pods \in limit_payload("namespace"), custom \in limit_payload("dynamic") :
       snapshot' = [rows  |-> {row \in snapshot.rows : Kind(row[1]) \notin Limited}
                                \cup pods \cup custom,
                    whole |-> snapshot.whole \ (invalidate_pod_coverage(pods)
                                \cup mark_dynamic_resource_payload_limit(custom))]
  /\ sent' = TRUE
  /\ UNCHANGED <<policy, objects, at, querying, listed, changes>>

\* The cluster changes under the queries.
ObjectChanges ==
  /\ ~sent /\ changes < MaxChanges
  /\ \E scope \in Scopes, o \in Object :
       objects' = [objects EXCEPT ![scope] = IF o \in @ THEN @ \ {o} ELSE @ \cup {o}]
  /\ changes' = changes + 1
  /\ UNCHANGED <<policy, at, querying, snapshot, sent, listed>>

CollectNext ==
  \/ query_cluster_wide_event_capture
  \/ query_cluster_access_snapshot
  \/ resolve_dynamic_resource_descriptor
  \/ query_dynamic_resource_collection
  \/ query_cluster_api_discovery
  \/ query
  \/ append_result
  \/ limit_kubernetes_snapshot
  \/ ObjectChanges

CollectSpec == CollectInit /\ [][CollectNext]_collectVars

-----------------------------------------------------------------------------
\* What a sent snapshot claims to be whole holds every object the API server
\* listed when that query opened its lists: page and item limits, a request
\* failing between two pages, an answer repeated, a later query of the same
\* kind and the payload limiter shared by all lists either keep every row or
\* take the claim away.
CoverageIsHonest ==
  sent => \A row \in listed : row[1] \in snapshot.whole => row \in snapshot.rows
=============================================================================
